---- MODULE Spec2Model ----
(***************************************************************************)
(* A model of PlaywrightBrowser                                            *)
(* (backend/app/infrastructure/external/browser/playwright_browser.py):    *)
(* the per-session browser resource manager, its retrying initialize(),    *)
(* its cleanup()/restart() lifecycle on a browser shared by several        *)
(* instances, and the interactive-element indexing protocol.               *)
(*                                                                         *)
(* Every instance runs one operation at a time (the caller serializes the  *)
(* calls on one instance); different instances interleave freely.  The     *)
(* awaits of initialize() are separate steps, so that other instances act  *)
(* between two attempts of one instance.                                   *)
(*                                                                         *)
(* The remote side is the environment: every call into it may raise.  The  *)
(* number of raised calls in one behaviour is bounded by a fault budget.   *)
(***************************************************************************)
EXTENDS Integers, Sequences, FiniteSets, TLC

\* ---------------------------------------------------------------- bounds
\* public operations started in one behaviour, over all instances
MaxOps == 3
\* faults of session set-up in one behaviour of Spec; faults of the other
\* calls in one behaviour of SpecRetry
MaxFaults == 1
\* nodes a document may hold
MaxNodes == 2
\* public operations started in one behaviour of SpecDom
DomOps == 3
\* environment faults in one behaviour of SpecDom
DomFaults == 1
\* faults of session set-up in one behaviour of SpecRetry (enough to fail every
\* attempt of a call)
RetryFaults == 6
\* public operations started in one behaviour of SpecRetry
RetryOps == 2
\* public operations started in a behaviour of SpecRetryFair
FairOps == 1
RestartOps == 3
RestartFaults == 2
TryOps == 3
TryFaults == 2
WaitOps == 2
WaitFaults == 1
MaxTimeout == 16
MaxEvalTime == 1
ViewOps == 3
ViewFaults == 1
MaxExcess == 1
ClickOps == 2
ClickFaults == 1
FilterOps == 2
RefsOps == 3
RefsFaults == 1
RefsConnFaults == 1
SnapOps == 3
SnapFaults == 1
ConsoleOps == 2
ConsoleFaults == 1
MaxLines == 3
MaxLogLen == 3
MaxSessions == 2
SweepRounds == 2
SweepFaults == 1
TokenScale == 2

\* ------------------------------------------------------ program constants
\* Python's None, written as an id no object has
None == 0
\* the default None of the index argument of click() and input()
NoIndex == -1
max_retries == 5
InitialRetryDelay == 1
MaxRetryDelay == 10

\* the instances that share the remote browser
Inst == {1, 2}

VARIABLES
  \* ---- fields of each PlaywrightBrowser instance
  browser,             \* self.browser: id of the Browser handle, or None
  context,             \* self.context: id of the BrowserContext, or None
  page,                \* self.page: id of the Page, or None
  playwright,          \* self.playwright: id of the driver runtime, or None
  connected_over_cdp,  \* self._connected_over_cdp
  \* ---- the operation in flight on each instance
  pc,                  \* position: "idle", the awaits of initialize(), "ensure", "body"
  op,                  \* the public operation in flight and its arguments
  attempt,             \* initialize(): the loop variable
  retry_delay,         \* initialize(): the local retry_delay
  slept,               \* the asyncio.sleep() arguments of the current initialize() call
  ret,                 \* how the last operation of the instance ended
  mark,                \* the ids that were still unused when initialize() was last called
  \* ---- the page object held by each instance
  dom,                 \* the document of self.page: its nodes in document order
  cache,               \* self.page.interactive_elements_cache (an attribute of the Page)
  \* ---- the remote browser and the driver
  nextId,              \* per instance and kind of object: serial of the next one it makes
  openCtx,             \* contexts of the shared browser on which no close() was issued
  openPages,           \* pages on which no close() was issued
  pageCtx,             \* the context each page was created in
  liveRt,              \* driver runtimes started and not asked to stop
  liveConn,            \* Browser handles connected and not asked to close
  browserClosed,       \* some instance issued close() on the shared browser
  \* ---- the run
  faults,              \* faults the environment may still inject into the other calls
  connFaults,          \* faults it may still inject into the calls that set a session up
  ops,                 \* public operations started so far
  maxOps,              \* how many may be started in this behaviour
  \* ---- the application around the browser
  sessions,            \* the SessionDocument collection: the stored document of each session
  now,                 \* datetime.now(timezone.utc), in seconds
  sweep,               \* the background task _cleanup_stale_sessions
  llm                  \* the OpenAILLM.ask() call in flight

inst_vars == <<browser, context, page, playwright, connected_over_cdp>>
call_vars == <<pc, op, attempt, retry_delay, slept, ret, mark>>
page_vars == <<dom, cache>>
env_vars  == <<nextId, openCtx, openPages, pageCtx, liveRt, liveConn, browserClosed>>
run_vars  == <<faults, connFaults, ops, maxOps>>
app_vars  == <<sessions, now, sweep, llm>>
vars == <<inst_vars, call_vars, page_vars, env_vars, run_vars, app_vars>>

Min(a, b) == IF a < b THEN a ELSE b

NoOp == [name |-> "none"]
NoRet == [op |-> NoOp, kind |-> "none", calls |-> <<>>]

\* The shared browser already holds a context that belongs to nobody here
\* (browser.contexts[0], which initialize() must not reuse).
PreExistingCtx == 1

\* ------------------------------------------------------------- documents
\* A document is its nodes in document order.  A node is present or not, has a
\* tag, a role attribute ("" when it has none), a tabindex attribute (<<>> when
\* it has none, <<k>> for tabindex="k"), a way it is laid out and styled (look)
\* and the value of its data-manus-id attribute ("" when it has none).  The
\* text of a node, and the tag the served document gives it, are fixed by its
\* position.
Nodes == 1..MaxNodes
NoMark == ""
NoRole == ""
NoTabindex == <<>>
TagOf(n) == IF n % 3 = 1 THEN "button" ELSE IF n % 3 = 2 THEN "a" ELSE "div"
TextOf(n) == IF n % 3 = 1 THEN "OK" ELSE IF n % 3 = 2 THEN "Home" ELSE "banner"
\* about:blank, the document of a page that was just created
BlankDoc == [n \in Nodes |-> [present |-> FALSE, tag |-> TagOf(n), role |-> NoRole,
                               tabindex |-> NoTabindex, look |-> "display_none",
                               mark |-> NoMark]]
\* the document the navigated URL serves
LoadedDoc == [n \in Nodes |-> [present |-> TRUE, tag |-> TagOf(n), role |-> NoRole,
                                tabindex |-> NoTabindex, look |-> "shown",
                                mark |-> NoMark]]
\* A Page object that never had the attribute interactive_elements_cache set
NoCache == [set |-> FALSE, els |-> <<>>]
EmptyCache == [set |-> TRUE, els |-> <<>>]

\* ------------------------------------------------------------ environment
\* Every object the remote side makes has an id of its own.  The ids an
\* instance is handed are numbered per instance (3, 5, 7, ... for instance 1;
\* 4, 6, 8, ... for instance 2), so that an id does not depend on what the
\* other instance did meanwhile.
\* A remote side that hands every instance the first object it made for it.
FirstId(i, kind) == Cardinality(Inst) + i

NewId(i, kind) == Cardinality(Inst) * nextId[i][kind] + i
\* the instance an object was made for
MadeFor(id) == IF id % Cardinality(Inst) = 1 THEN 1 ELSE 2

\* A call into the remote side returns (TRUE) or raises (FALSE); it raises
\* only while the fault budget lasts.
Outcomes == IF faults > 0 THEN {TRUE, FALSE} ELSE {TRUE}
Spend(ok) == IF ok THEN faults ELSE faults - 1
\* The same for the calls that set a session up (start the driver, connect,
\* make a context, make a page), which have a budget of their own.
ConnOutcomes == IF connFaults > 0 THEN {TRUE, FALSE} ELSE {TRUE}
ConnSpend(ok) == IF ok THEN connFaults ELSE connFaults - 1

\* ------------------------------------------- _extract_interactive_elements()
\* lines 259-260: window.innerHeight and window.innerWidth, in pixels
viewportHeight == 6
viewportWidth == 8
\* The ways a node is laid out and styled: one for each side on which the tests
\* of lines 273-289 can fail, and the box that touches the top edge from outside.
Looks == {"shown", "zero_width", "zero_height", "above", "touching_top", "below",
          "left_of", "right_of", "display_none", "hidden", "transparent"}
\* line 270: element.getBoundingClientRect() (a node with display: none has no
\* box: all of its rectangle is 0)
Box(top, bottom, left, right) ==
  [top |-> top, bottom |-> bottom, left |-> left, right |-> right,
   width |-> right - left, height |-> bottom - top]
Rect(look) ==
  CASE look = "zero_width" -> Box(1, 2, 1, 1)
    [] look = "zero_height" -> Box(1, 1, 1, 3)
    [] look = "above" -> Box(-3, -1, 1, 3)
    [] look = "touching_top" -> Box(-2, 0, 1, 3)
    [] look = "below" -> Box(viewportHeight + 1, viewportHeight + 2, 1, 3)
    [] look = "left_of" -> Box(1, 2, -3, -1)
    [] look = "right_of" -> Box(1, 2, viewportWidth + 1, viewportWidth + 3)
    [] look = "display_none" -> Box(0, 0, 0, 0)
    [] OTHER -> Box(1, 2, 1, 3)
\* line 284: window.getComputedStyle(element)
Style(look) ==
  [display |-> IF look = "display_none" THEN "none" ELSE "block",
   visibility |-> IF look = "hidden" THEN "hidden" ELSE "visible",
   opacity |-> IF look = "transparent" THEN "0" ELSE "1"]
\* line 263: the selector of the candidates
Selected(d, n) ==
  \/ d[n].tag \in {"button", "a", "input", "textarea", "select"}
  \/ d[n].role = "button"
  \/ d[n].tabindex # NoTabindex /\ d[n].tabindex # <<-1>>
\* line 273: the element has some dimensions
HasDimensions(rect) == ~(rect.width = 0 \/ rect.height = 0)
\* lines 276-281: the element is within the viewport
WithinViewport(rect) ==
  ~(rect.bottom < 0 \/ rect.top > viewportHeight
    \/ rect.right < 0 \/ rect.left > viewportWidth)
\* lines 285-289: the element is not hidden by CSS
NotHiddenByCSS(style) ==
  ~(style.display = "none" \/ style.visibility = "hidden" \/ style.opacity = "0")
\* lines 263-289: the node is a candidate and no test skips it
Passes(d, n) ==
  /\ d[n].present
  /\ Selected(d, n)
  /\ HasDimensions(Rect(d[n].look))
  /\ WithinViewport(Rect(d[n].look))
  /\ NotHiddenByCSS(Style(d[n].look))

\* line 378: the value of the marker attribute
MarkerValue(k) == "manus-element-" \o ToString(k)
\* line 381 and line 451: the locator
Selector(k) == "[data-manus-id=\"" \o MarkerValue(k) \o "\"]"
\* An indexing that numbers an element by its position among the candidates.
ElementIndexByPosition(n, k) == n - 1

\* line 385: the index an element gets: the count of the elements accepted
\* before it (validElementIndex), not its position i among the candidates
ElementIndex(n, k) == k

\* lines 265-392: the loop over the candidates.  n is the node looked at, k is
\* validElementIndex.  (The field node is not in the program's data: it records
\* which node the entry was made from.)
RECURSIVE Scan(_, _, _, _)
Scan(d, n, k, els) ==
  IF n > MaxNodes THEN [doc |-> d, els |-> els]
  ELSE IF Passes(d, n)
    THEN Scan([d EXCEPT ![n].mark = MarkerValue(ElementIndex(n, k))], n + 1, k + 1,
              Append(els, [index |-> ElementIndex(n, k), tag |-> d[n].tag,
                           text |-> TextOf(n),
                           selector |-> Selector(ElementIndex(n, k)),
                           node |-> n]))
    ELSE Scan(d, n + 1, k, els)

\* line 403: one line of the listing
FormatElement(el) ==
  ToString(el.index) \o ":<" \o el.tag \o ">" \o el.text \o "</" \o el.tag \o ">"
\* lines 401-405
FormatElements(els) == [k \in 1..Len(els) |-> FormatElement(els[k])]

\* page.query_selector: the first node in document order that the locator matches
Matching(d, sel) ==
  {n \in Nodes : d[n].present /\ d[n].mark # NoMark
                 /\ "[data-manus-id=\"" \o d[n].mark \o "\"]" = sel}
QuerySelector(d, sel) ==
  IF Matching(d, sel) = {} THEN None
  ELSE CHOOSE n \in Matching(d, sel) : \A m \in Matching(d, sel) : n <= m

\* lines 447-448: no cache attribute, an empty cache, or an index past its end
NotInCache(c, index) == ~c.set \/ c.els = <<>> \/ index >= Len(c.els)
\* lines 437-452: _get_element_by_index
GetElementByIndex(i, index) ==
  IF NotInCache(cache[i], index) THEN None
  ELSE QuerySelector(dom[i], "[data-manus-id=\"manus-element-" \o ToString(index) \o "\"]")

\* ------------------------------------------------- results of operations
Ok(data) == [kind |-> "result", success |-> TRUE,
             message |-> [text |-> "", arg |-> ""], data |-> data]
Fail(text, arg) == [kind |-> "result", success |-> FALSE,
                    message |-> [text |-> text, arg |-> arg], data |-> <<>>]
Raised(text) == [kind |-> "raised", success |-> FALSE,
                 message |-> [text |-> text, arg |-> ""], data |-> <<>>]
\* the text of an exception raised by the remote side
ErrorText == "Error"

\* The operation of instance i ends with r, having made the calls.
Return(i, r, calls) ==
  /\ ret' = [ret EXCEPT ![i] = [op |-> op[i], calls |-> calls] @@ r]
  /\ pc' = [pc EXCEPT ![i] = "idle"]
  /\ op' = [op EXCEPT ![i] = NoOp]

\* ------------------------------------------------------------- cleanup()
\* A cleanup() that closes its page without asking whether it is closed.
ClosesPageAlways(i) == page[i] # None

\* line 82: the page is closed only when there is one and it is not closed yet
ClosesPage(i) == page[i] # None /\ page[i] \in openPages
\* A cleanup() that never closes the context.
ClosesContextNever(i) == FALSE

\* line 87: the context is closed whenever there is one
ClosesContext(i) == context[i] # None
\* A cleanup() that closes browser and runtime whatever the flag says.
OwnsBrowserAlways(i) == TRUE
\* A finally block that forgets browser and runtime whatever the flag says.
ResetsBrowserAlways(i) == TRUE

\* line 96: browser and runtime are closed only when not connected over CDP
OwnsBrowser(i) == ~connected_over_cdp[i]
\* line 114: the finally block forgets browser and runtime only in that case
ResetsBrowser(i) == ~connected_over_cdp[i]

\* A finally block that also resets the flag.
FlagResetByCleanup(i) == FALSE

\* lines 108-116: the finally block does not assign _connected_over_cdp
FlagAfterCleanup(i) == connected_over_cdp[i]

\* The calls cleanup() issues, in order, each with its target.
CleanupCalls(i) ==
  (IF ClosesPage(i) THEN << <<"page.close", page[i]>> >> ELSE <<>>)
  \o (IF ClosesContext(i) THEN << <<"context.close", context[i]>> >> ELSE <<>>)
  \o (IF OwnsBrowser(i) /\ browser[i] # None
        THEN << <<"browser.close", browser[i]>> >> ELSE <<>>)
  \o (IF OwnsBrowser(i) /\ playwright[i] # None
        THEN << <<"playwright.stop", playwright[i]>> >> ELSE <<>>)

\* A cleanup() with one try around all its calls: the first that raises ends it.
AttemptedUntilFault(calls, F) ==
  IF F = {} THEN calls
  ELSE SubSeq(calls, 1, CHOOSE k \in F : \A l \in F : k <= l)

\* lines 83-106: every call of cleanup() has a try/except of its own, so all of
\* them are attempted, whichever of them (those at the positions F) raise
Attempted(calls, F) == calls

Targets(calls, name) == {calls[k][2] : k \in {j \in 1..Len(calls) : calls[j][1] = name}}

\* The calls with their outcome; those at the positions F raised (each one is
\* caught by its own try/except and only logged).
Logged(calls, F) == [k \in 1..Len(calls) |-> <<calls[k][1], calls[k][2], k \notin F>>]

\* What cleanup() does to the instance and to the remote side.  A close() that
\* raises was still issued: the object counts as released by this instance.
\* The finally block resets page and context always, browser and playwright
\* only when the instance owns them.
CleanupEffect(i, calls) ==
  /\ openCtx' = openCtx \ Targets(calls, "context.close")
  /\ openPages' = {p \in openPages :
                     /\ p \notin Targets(calls, "page.close")
                     /\ pageCtx[p] \notin Targets(calls, "context.close")}
  /\ liveConn' = liveConn \ Targets(calls, "browser.close")
  /\ browserClosed' = (browserClosed \/ Targets(calls, "browser.close") # {})
  /\ liveRt' = liveRt \ Targets(calls, "playwright.stop")
  /\ page' = [page EXCEPT ![i] = None]
  /\ context' = [context EXCEPT ![i] = None]
  /\ browser' = [browser EXCEPT ![i] = IF ResetsBrowser(i) THEN None ELSE @]
  /\ playwright' = [playwright EXCEPT ![i] = IF ResetsBrowser(i) THEN None ELSE @]
  /\ connected_over_cdp' = [connected_over_cdp EXCEPT ![i] = FlagAfterCleanup(i)]
  /\ UNCHANGED <<nextId, pageCtx>>

\* A cache kept on the instance: it outlives the page it was computed on.
FollowPageKeepsCache ==
  /\ dom' = [j \in Inst |-> IF page'[j] = page[j] THEN dom[j] ELSE BlankDoc]
  /\ cache' = cache

\* The cache is an attribute of the Page object and the document belongs to
\* it: an instance whose page reference changed sees neither any more.
FollowPage ==
  /\ dom' = [j \in Inst |-> IF page'[j] = page[j] THEN dom[j] ELSE BlankDoc]
  /\ cache' = [j \in Inst |-> IF page'[j] = page[j] THEN cache[j] ELSE NoCache]

\* cleanup() called by the owner of the instance.
Cleanup(i) ==
  /\ pc[i] = "idle"
  /\ ops < maxOps
  /\ \E F \in SUBSET (1..Len(CleanupCalls(i))) :
       /\ Cardinality(F) <= faults
       /\ faults' = faults - Cardinality(F)
       /\ ret' = [ret EXCEPT ![i] = [op |-> [name |-> "cleanup"], kind |-> "none",
                                      calls |-> Logged(Attempted(CleanupCalls(i), F), F)]]
       /\ CleanupEffect(i, Attempted(CleanupCalls(i), F))
  /\ FollowPage
  /\ ops' = ops + 1
  /\ UNCHANGED <<pc, op, attempt, retry_delay, slept, mark, connFaults, maxOps, app_vars>>

\* ----------------------------------------------------------- initialize()
\* lines 40-42: entering the retry loop
EnterInitialize(i) ==
  /\ pc' = [pc EXCEPT ![i] = "start"]
  /\ attempt' = [attempt EXCEPT ![i] = 0]
  /\ retry_delay' = [retry_delay EXCEPT ![i] = InitialRetryDelay]
  /\ slept' = [slept EXCEPT ![i] = <<>>]
  /\ mark' = [mark EXCEPT ![i] = [ctx |-> NewId(i, "ctx"), page |-> NewId(i, "page")]]

\* initialize() called by the owner of the instance.
CallInitialize(i) ==
  /\ pc[i] = "idle"
  /\ ops < maxOps
  /\ EnterInitialize(i)
  /\ op' = [op EXCEPT ![i] = [name |-> "initialize"]]
  /\ ret' = [ret EXCEPT ![i] = NoRet]
  /\ ops' = ops + 1
  /\ UNCHANGED <<inst_vars, page_vars, env_vars, faults, connFaults, maxOps, app_vars>>

\* initialize() returns: True or False from inside the loop (kind "bool", value
\* b), or None by running off the end of the loop (kind "none").  It returns to
\* the caller, or into _ensure_browser (line 121), which raises unless the
\* value is true.
InitReturns(i, kind, b) ==
  IF op[i].name = "initialize"
    THEN /\ pc' = [pc EXCEPT ![i] = "idle"]
         /\ op' = [op EXCEPT ![i] = NoOp]
         /\ ret' = [ret EXCEPT ![i] = [op |-> op[i], kind |-> kind, value |-> b,
                                        calls |-> <<>>]]
    ELSE IF b
      THEN /\ pc' = [pc EXCEPT ![i] = "ensure"]
           /\ UNCHANGED <<op, ret>>
      ELSE /\ pc' = [pc EXCEPT ![i] = "idle"]
           /\ op' = [op EXCEPT ![i] = NoOp]
           /\ ret' = [ret EXCEPT ![i] =
                        [op |-> op[i], calls |-> <<>>]
                        @@ Raised("Unable to initialize browser resources")]

\* An await of the try block raised: control goes to the except clause.
ToHandler(i) ==
  /\ pc' = [pc EXCEPT ![i] = "handler"]
  /\ UNCHANGED <<op, ret, attempt, retry_delay, slept, mark>>

\* line 45: self.playwright = await async_playwright().start()
InitStart(i) ==
  /\ pc[i] = "start"
  /\ \E ok \in ConnOutcomes :
       /\ connFaults' = ConnSpend(ok)
       /\ IF ok
            THEN /\ playwright' = [playwright EXCEPT ![i] = NewId(i, "rt")]
                 /\ nextId' = [nextId EXCEPT ![i].rt = @ + 1]
                 /\ liveRt' = liveRt \cup {NewId(i, "rt")}
                 /\ pc' = [pc EXCEPT ![i] = "connect"]
                 /\ UNCHANGED <<op, ret, attempt, retry_delay, slept, mark>>
            ELSE /\ ToHandler(i)
                 /\ UNCHANGED <<playwright, nextId, liveRt>>
  /\ UNCHANGED <<browser, context, page, connected_over_cdp, page_vars,
                 openCtx, openPages, pageCtx, liveConn, browserClosed, faults, ops, maxOps, app_vars>>

\* lines 47-48: self.browser = await connect_over_cdp(...); the flag is set
InitConnect(i) ==
  /\ pc[i] = "connect"
  /\ \E ok \in ConnOutcomes :
       /\ connFaults' = ConnSpend(ok)
       /\ IF ok
            THEN /\ browser' = [browser EXCEPT ![i] = NewId(i, "conn")]
                 /\ connected_over_cdp' = [connected_over_cdp EXCEPT ![i] = TRUE]
                 /\ nextId' = [nextId EXCEPT ![i].conn = @ + 1]
                 /\ liveConn' = liveConn \cup {NewId(i, "conn")}
                 /\ pc' = [pc EXCEPT ![i] = "newctx"]
                 /\ UNCHANGED <<op, ret, attempt, retry_delay, slept, mark>>
            ELSE /\ ToHandler(i)
                 /\ UNCHANGED <<browser, connected_over_cdp, nextId, liveConn>>
  /\ UNCHANGED <<context, page, playwright, page_vars,
                 openCtx, openPages, pageCtx, liveRt, browserClosed, faults, ops, maxOps, app_vars>>

\* An initialize() that takes the first context the browser already has
\* (browser.contexts[0]) when there is one.
InitContextReused(i) ==
  IF openCtx # {}
    THEN CHOOSE c \in openCtx : \A d \in openCtx : c <= d
    ELSE NewId(i, "ctx")

\* line 52: the context initialize() takes: browser.new_context() makes a new
\* one, which gets the next unused id
InitContext(i) == NewId(i, "ctx")

\* line 52: self.context = await self.browser.new_context()
InitNewContext(i) ==
  /\ pc[i] = "newctx"
  /\ \E ok \in ConnOutcomes :
       /\ connFaults' = ConnSpend(ok)
       /\ IF ok
            THEN /\ context' = [context EXCEPT ![i] = InitContext(i)]
                 /\ nextId' = [nextId EXCEPT ![i].ctx =
                                IF InitContext(i) = NewId(i, "ctx") THEN @ + 1 ELSE @]
                 /\ openCtx' = openCtx \cup {InitContext(i)}
                 /\ pc' = [pc EXCEPT ![i] = "newpage"]
                 /\ UNCHANGED <<op, ret, attempt, retry_delay, slept, mark>>
            ELSE /\ ToHandler(i)
                 /\ UNCHANGED <<context, nextId, openCtx>>
  /\ UNCHANGED <<browser, page, playwright, connected_over_cdp, page_vars,
                 openPages, pageCtx, liveRt, liveConn, browserClosed, faults, ops, maxOps, app_vars>>

\* lines 53-55: self.page = await self.context.new_page(); return True
InitNewPage(i) ==
  /\ pc[i] = "newpage"
  /\ \E ok \in ConnOutcomes :
       /\ connFaults' = ConnSpend(ok)
       /\ IF ok
            THEN /\ page' = [page EXCEPT ![i] = NewId(i, "page")]
                 /\ nextId' = [nextId EXCEPT ![i].page = @ + 1]
                 /\ openPages' = openPages \cup {NewId(i, "page")}
                 /\ pageCtx' = pageCtx @@ (NewId(i, "page") :> context[i])
                 /\ InitReturns(i, "bool", TRUE)
                 /\ UNCHANGED <<attempt, retry_delay, slept, mark>>
            ELSE /\ ToHandler(i)
                 /\ UNCHANGED <<page, nextId, openPages, pageCtx>>
  /\ FollowPage
  /\ UNCHANGED <<browser, context, playwright, connected_over_cdp,
                 openCtx, liveRt, liveConn, browserClosed, faults, ops, maxOps, app_vars>>

\* An except clause that compares the attempt with max_retries itself.
LastAttemptLate(a) == a = max_retries

\* line 64: the attempt after which initialize() gives up
LastAttempt(a) == a = max_retries - 1

\* line 69: the delay of the next wait
NextDelay(d) == Min(d * 2, MaxRetryDelay)

\* lines 56-70: the except clause: cleanup(), then give up after the last
\* attempt or compute the next delay
InitHandler(i) ==
  /\ pc[i] = "handler"
  /\ \E F \in SUBSET (1..Len(CleanupCalls(i))) :
       /\ Cardinality(F) <= faults
       /\ faults' = faults - Cardinality(F)
       /\ CleanupEffect(i, Attempted(CleanupCalls(i), F))
  /\ FollowPage
  /\ IF LastAttempt(attempt[i])
       THEN /\ InitReturns(i, "bool", FALSE)
            /\ UNCHANGED retry_delay
       ELSE /\ retry_delay' = [retry_delay EXCEPT ![i] = NextDelay(@)]
            /\ pc' = [pc EXCEPT ![i] = "sleep"]
            /\ UNCHANGED <<op, ret>>
  /\ UNCHANGED <<attempt, slept, mark, connFaults, ops, maxOps, app_vars>>

\* line 71: await asyncio.sleep(retry_delay), then the next iteration of
\* for attempt in range(max_retries); when there is none, the function ends
\* without a return statement
InitSleep(i) ==
  /\ pc[i] = "sleep"
  /\ slept' = [slept EXCEPT ![i] = Append(@, retry_delay[i])]
  /\ attempt' = [attempt EXCEPT ![i] = @ + 1]
  /\ IF attempt[i] + 1 < max_retries
       THEN /\ pc' = [pc EXCEPT ![i] = "start"]
            /\ UNCHANGED <<op, ret>>
       ELSE InitReturns(i, "none", FALSE)
  /\ UNCHANGED <<retry_delay, mark, inst_vars, page_vars, env_vars,
                 faults, connFaults, ops, maxOps, app_vars>>

Initialize(i) ==
  \/ InitStart(i)
  \/ InitConnect(i)
  \/ InitNewContext(i)
  \/ InitNewPage(i)
  \/ InitHandler(i)
  \/ InitSleep(i)

\* ------------------------------------------ _ensure_browser, _ensure_page
\* An _ensure_browser that calls initialize() every time.
NeedsInitializeAlways(b, p) == TRUE
\* An _ensure_browser that also calls initialize() when the page is closed.
NeedsInitializeClosed(b, p) == b = None \/ p = None \/ p \notin openPages

\* An _ensure_browser that never calls initialize().
NeedsInitializeNever(b, p) == FALSE

\* line 120: _ensure_browser calls initialize() unless both are there
NeedsInitialize(b, p) == b = None \/ p = None

\* A public operation other than initialize() and cleanup() is called: its
\* first statement is await self._ensure_page().
CallOp(i, o) ==
  /\ pc[i] = "idle"
  /\ ops < maxOps
  /\ op' = [op EXCEPT ![i] = o]
  /\ ret' = [ret EXCEPT ![i] = NoRet]
  /\ ops' = ops + 1
  /\ IF NeedsInitialize(browser[i], page[i])
       THEN EnterInitialize(i)
       ELSE /\ pc' = [pc EXCEPT ![i] = "ensure"]
            /\ UNCHANGED <<attempt, retry_delay, slept, mark>>
  /\ UNCHANGED <<inst_vars, page_vars, env_vars, faults, connFaults, maxOps, app_vars>>

\* An exception of _ensure_page leaves the operation, whose first statement is
\* outside every try; the one of the indexing call of navigate() is inside
\* navigate's try (lines 415-429).
EnsureRaises(i) ==
  IF op[i].name = "navigate" /\ op[i].stage = "index"
    THEN Fail("Failed to navigate to ", ErrorText)
    ELSE Raised(ErrorText)

\* lines 128-133: the rest of _ensure_page.  f names the call that raises, if
\* any; the exception leaves the operation, whose first statement is outside
\* every try.
EnsureRest(i) ==
  /\ pc[i] = "ensure"
  /\ LET needCtx == context[i] = None
         needPage == page[i] = None \/ page[i] \notin openPages
     IN \E f \in {"none", "ctx", "page"} :
          /\ f # "none" => connFaults > 0
          /\ f = "ctx" => needCtx
          /\ f = "page" => needPage
          /\ LET newCtx == needCtx /\ f # "ctx"
                 newPage == needPage /\ f = "none"
                 c == IF newCtx THEN NewId(i, "ctx") ELSE context[i]
                 calls == (IF needCtx THEN << <<"browser.new_context", NewId(i, "ctx"), newCtx>> >>
                                      ELSE <<>>)
                          \o (IF needPage /\ f # "ctx"
                                THEN << <<"context.new_page", NewId(i, "page"), newPage>> >>
                                ELSE <<>>)
             IN /\ connFaults' = IF f = "none" THEN connFaults ELSE connFaults - 1
                /\ context' = [context EXCEPT ![i] = c]
                /\ openCtx' = IF newCtx THEN openCtx \cup {c} ELSE openCtx
                /\ page' = [page EXCEPT ![i] = IF newPage THEN NewId(i, "page") ELSE @]
                /\ openPages' = IF newPage THEN openPages \cup {NewId(i, "page")} ELSE openPages
                /\ pageCtx' = IF newPage THEN pageCtx @@ (NewId(i, "page") :> c) ELSE pageCtx
                /\ nextId' = [nextId EXCEPT ![i].ctx = IF newCtx THEN @ + 1 ELSE @,
                                            ![i].page = IF newPage THEN @ + 1 ELSE @]
                /\ IF f = "none"
                     THEN /\ pc' = [pc EXCEPT ![i] = "body"]
                          /\ UNCHANGED <<op, ret>>
                     ELSE Return(i, EnsureRaises(i), calls)
  /\ FollowPage
  /\ UNCHANGED <<browser, playwright, connected_over_cdp, attempt, retry_delay, slept,
                 mark, liveRt, liveConn, browserClosed, faults, ops, maxOps, app_vars>>

\* A page the instance holds is closed from outside (by the user of the
\* browser, or by the page itself), between two operations or before
\* _ensure_page looks at the page: a call on a closed page is a call that
\* raises, which the fault budget covers.
ExternalPageClose(i) ==
  /\ pc[i] \in {"idle", "ensure"}
  /\ page[i] # None
  /\ page[i] \in openPages
  /\ faults > 0
  /\ faults' = faults - 1
  /\ openPages' = openPages \ {page[i]}
  /\ UNCHANGED <<inst_vars, call_vars, page_vars, nextId, openCtx, pageCtx, liveRt,
                 liveConn, browserClosed, connFaults, ops, maxOps, app_vars>>

\* -------------------------------------------------- navigate(), restart()
\* The indexing call as navigate() and view_page() make it, on a page that
\* _ensure_page just returned: line 254 clears the cache, the script runs
\* (ok) or raises, line 398 stores what it returned.
IndexedCache(i, d, ok) ==
  IF ok THEN [set |-> TRUE, els |-> Scan(d, 1, 0, <<>>).els] ELSE EmptyCache
IndexedDoc(i, d, ok) == IF ok THEN Scan(d, 1, 0, <<>>).doc ELSE d

\* A navigate() that leaves the cache alone.
KeptByNavigate(c) == c

\* line 417: navigate() clears the cache before page.goto
ClearedByNavigate(c) == EmptyCache

\* lines 414-417: after _ensure_page, the cache of the page is cleared and
\* page.goto is awaited
NavigateClear(i) ==
  /\ pc[i] = "body"
  /\ op[i].name = "navigate"
  /\ op[i].stage = "goto"
  /\ cache' = [cache EXCEPT ![i] = ClearedByNavigate(@)]
  /\ pc' = [pc EXCEPT ![i] = "goto"]
  /\ UNCHANGED <<inst_vars, op, attempt, retry_delay, slept, ret, mark, dom, env_vars,
                 faults, connFaults, ops, maxOps, app_vars>>

\* A navigate() whose page.goto has no try of its own: its exception goes to
\* the except clause of navigate().
LoadCaughtOnSuccess(gotoOk) == gotoOk

\* lines 418-421: page.goto has a try of its own, whose except clause only logs
LoadCaught(gotoOk) == TRUE

\* lines 418-421: page.goto returns or raises (a timeout, an error); either is
\* followed by the indexing call, which starts with _ensure_page (line 251);
\* the operation remembers which it was (loaded).
\* A load that raised may or may not have replaced the document.
NavigateLoad(i) ==
  /\ pc[i] = "goto"
  /\ \E gotoOk \in Outcomes :
       /\ faults' = Spend(gotoOk)
       /\ \E d \in (IF gotoOk THEN {LoadedDoc} ELSE {dom[i], LoadedDoc}) :
            dom' = [dom EXCEPT ![i] = d]
       /\ IF LoadCaught(gotoOk)
            THEN /\ op' = [op EXCEPT ![i] = [stage |-> "index", loaded |-> gotoOk] @@ @]
                 /\ pc' = [pc EXCEPT ![i] = "ensure"]
                 /\ UNCHANGED ret
            ELSE Return(i, Fail("Failed to navigate to ", ErrorText),
                        << <<"page.goto", page[i], gotoOk>> >>)
  /\ UNCHANGED <<inst_vars, attempt, retry_delay, slept, mark, cache, env_vars,
                 connFaults, ops, maxOps, app_vars>>

\* lines 422-429: the indexing call of navigate(); an exception of it is
\* caught by the outer try and becomes a failed result
NavigateIndex(i) ==
  /\ pc[i] = "body"
  /\ op[i].name = "navigate"
  /\ op[i].stage = "index"
  /\ \E evalOk \in Outcomes :
       /\ faults' = Spend(evalOk)
       /\ dom' = [dom EXCEPT ![i] = IndexedDoc(i, dom[i], evalOk)]
       /\ cache' = [cache EXCEPT ![i] = IndexedCache(i, dom[i], evalOk)]
       /\ LET calls == << <<"page.evaluate", page[i], evalOk>> >>
          IN IF evalOk
               THEN Return(i, Ok(FormatElements(IndexedCache(i, dom[i], evalOk).els)), calls)
               ELSE Return(i, Fail("Failed to navigate to ", ErrorText), calls)
  /\ UNCHANGED <<inst_vars, attempt, retry_delay, slept, mark, env_vars, connFaults, ops, maxOps, app_vars>>

\* lines 431-434: restart() is cleanup() and then navigate(), whose
\* _ensure_page finds no page.  The operation remembers whether it found its
\* page closed (closed) and the calls its cleanup() made (cleaned).
Restart(i) ==
  /\ pc[i] = "idle"
  /\ ops < maxOps
  /\ \E F \in SUBSET (1..Len(CleanupCalls(i))) :
       /\ Cardinality(F) <= faults
       /\ faults' = faults - Cardinality(F)
       /\ CleanupEffect(i, Attempted(CleanupCalls(i), F))
       /\ op' = [op EXCEPT ![i] =
                  [name |-> "navigate", via |-> "restart", stage |-> "goto",
                   closed |-> page[i] # None /\ page[i] \notin openPages,
                   cleaned |-> Logged(Attempted(CleanupCalls(i), F), F)]]
  /\ FollowPage
  /\ ret' = [ret EXCEPT ![i] = NoRet]
  /\ ops' = ops + 1
  /\ IF NeedsInitialize(browser'[i], page'[i])
       THEN EnterInitialize(i)
       ELSE /\ pc' = [pc EXCEPT ![i] = "ensure"]
            /\ UNCHANGED <<attempt, retry_delay, slept, mark>>
  /\ UNCHANGED <<connFaults, maxOps, app_vars>>

CallNavigate(i) == CallOp(i, [name |-> "navigate", via |-> "navigate", stage |-> "goto"])

\* ------------------------------------- _extract_interactive_elements()
\* The indexing call made on its own.
CallIndex(i) == CallOp(i, [name |-> "index"])

IndexBody(i) ==
  /\ pc[i] = "body"
  /\ op[i].name = "index"
  /\ \E evalOk \in Outcomes :
       /\ faults' = Spend(evalOk)
       /\ dom' = [dom EXCEPT ![i] = IndexedDoc(i, dom[i], evalOk)]
       /\ cache' = [cache EXCEPT ![i] = IndexedCache(i, dom[i], evalOk)]
       /\ LET calls == << <<"page.evaluate", page[i], evalOk>> >>
          IN IF evalOk
               THEN Return(i, [kind |-> "value", success |-> TRUE,
                               message |-> [text |-> "", arg |-> ""],
                               data |-> FormatElements(IndexedCache(i, dom[i], evalOk).els)],
                           calls)
               ELSE Return(i, Raised(ErrorText), calls)
  /\ UNCHANGED <<inst_vars, attempt, retry_delay, slept, mark, env_vars, connFaults, ops, maxOps, app_vars>>

\* ------------------------------------------------ click(), input(), select_option()
\* The calls of a straight-line piece of code of which the f-th raises (f = 0:
\* none does): those up to f, each with its outcome.
Ran(steps, f) ==
  [k \in 1..(IF f = 0 THEN Len(steps) ELSE f) |-> <<steps[k][1], steps[k][2], k # f>>]
\* The positions at which a piece of code can raise: any call into the remote
\* side, while the fault budget lasts.
CanRaise(steps) ==
  {0} \cup {k \in 1..Len(steps) : faults > 0 /\ steps[k][1] # "asyncio.sleep"}

\* A test that lets a given index win over the coordinates.
CoordinateFormUnlessIndex(o) == o.coords = "both" /\ o.index = NoIndex

\* lines 462 and 510: the coordinate form is taken when both are given
CoordinateForm(o) == o.coords = "both"
\* lines 464 and 513: otherwise the index form, when an index is given
IndexForm(o) == ~CoordinateForm(o) /\ o.index # NoIndex

\* A visibility test that always finds the element visible.
IsVisibleAlways(d, n) == TRUE

\* lines 471-482: the visibility test of click()
IsVisible(d, n) ==
  ~(\/ Rect(d[n].look).width = 0
    \/ Rect(d[n].look).height = 0
    \/ Style(d[n].look).display = "none"
    \/ Style(d[n].look).visibility = "hidden"
    \/ Style(d[n].look).opacity = "0")

\* A click() that clicks a second time.
ClickStepsRetried(i, el) ==
  << <<"page.query_selector", op[i].index>> >>
  \o (IF el = None THEN <<>>
      ELSE << <<"page.evaluate", "is_visible">>, <<"element.click", el>>,
              <<"element.click", el>> >>)

\* lines 466-495: the calls of the index form of click() on the element el
ClickSteps(i, el) ==
  << <<"page.query_selector", op[i].index>> >>
  \o (IF el = None THEN <<>>
      ELSE << <<"page.evaluate", "is_visible">> >>
           \o (IF IsVisible(dom[i], el) THEN <<>>
               ELSE << <<"page.evaluate", "scrollIntoView">>, <<"asyncio.sleep", 1>> >>)
           \o << <<"element.click", el>> >>)

\* lines 454-498
ClickBody(i) ==
  /\ pc[i] = "body"
  /\ op[i].name = "click"
  /\ LET o == op[i]
         el == GetElementByIndex(i, o.index)
     IN IF CoordinateForm(o)
          THEN \E f \in CanRaise(<< <<"mouse.click", "xy">> >>) :
                 /\ faults' = IF f = 0 THEN faults ELSE faults - 1
                 /\ Return(i, IF f = 0 THEN Ok(<<>>) ELSE Raised(ErrorText),
                           Ran(<< <<"mouse.click", "xy">> >>, f))
        ELSE IF IndexForm(o)
          THEN IF NotInCache(cache[i], o.index)
                 THEN /\ faults' = faults
                      /\ Return(i, Fail("Cannot find interactive element with index ",
                                        ToString(o.index)), <<>>)
                 ELSE \E f \in CanRaise(ClickSteps(i, el)) :
                        /\ faults' = IF f = 0 THEN faults ELSE faults - 1
                        /\ Return(i,
                             IF f # 0 THEN Fail("Failed to click element: ", ErrorText)
                             ELSE IF el = None
                               THEN Fail("Cannot find interactive element with index ",
                                         ToString(o.index))
                               ELSE Ok(<<>>),
                             Ran(ClickSteps(i, el), f))
        ELSE /\ faults' = faults
             /\ Return(i, Ok(<<>>), <<>>)
  /\ UNCHANGED <<inst_vars, attempt, retry_delay, slept, mark, page_vars, env_vars,
                 connFaults, ops, maxOps, app_vars>>

\* lines 550-566
SelectBody(i) ==
  /\ pc[i] = "body"
  /\ op[i].name = "select_option"
  /\ LET o == op[i]
         el == GetElementByIndex(i, o.index)
         steps == << <<"page.query_selector", o.index>> >>
                  \o (IF el = None THEN <<>> ELSE << <<"element.select_option", el>> >>)
     IN IF NotInCache(cache[i], o.index)
          THEN /\ faults' = faults
               /\ Return(i, Fail("Cannot find selector element with index ",
                                 ToString(o.index)), <<>>)
          ELSE \E f \in CanRaise(steps) :
                 /\ faults' = IF f = 0 THEN faults ELSE faults - 1
                 /\ Return(i,
                      IF f # 0 THEN Fail("Failed to select option: ", ErrorText)
                      ELSE IF el = None
                        THEN Fail("Cannot find selector element with index ",
                                  ToString(o.index))
                        ELSE Ok(<<>>),
                      Ran(steps, f))
  /\ UNCHANGED <<inst_vars, attempt, retry_delay, slept, mark, page_vars, env_vars,
                 connFaults, ops, maxOps, app_vars>>

\* lines 530-532: the Enter key press that ends input(); it is outside every try
EnterSteps(o) == IF o.enter THEN << <<"keyboard.press", "Enter">> >> ELSE <<>>

\* lines 500-532.  In the index form, p is the call of the first path that
\* raises (fill, type) and b the one of the second path (click, keyboard.type);
\* e tells whether the Enter key press raises.
InputBody(i) ==
  /\ pc[i] = "body"
  /\ op[i].name = "input"
  /\ LET o == op[i]
         el == GetElementByIndex(i, o.index)
     IN IF CoordinateForm(o)
          THEN LET steps == << <<"mouse.click", "xy">>, <<"keyboard.type", "text">> >>
                            \o EnterSteps(o)
               IN \E f \in CanRaise(steps) :
                    /\ faults' = IF f = 0 THEN faults ELSE faults - 1
                    /\ Return(i, IF f = 0 THEN Ok(<<>>) ELSE Raised(ErrorText), Ran(steps, f))
        ELSE IF IndexForm(o)
          THEN IF NotInCache(cache[i], o.index)
                 THEN /\ faults' = faults
                      /\ Return(i, Fail("Cannot find interactive element with index ",
                                        ToString(o.index)), <<>>)
               ELSE IF el = None
                 THEN \E f \in CanRaise(<< <<"page.query_selector", o.index>> >>) :
                        /\ faults' = IF f = 0 THEN faults ELSE faults - 1
                        /\ Return(i,
                             IF f # 0 THEN Fail("Failed to input text: ", ErrorText)
                             ELSE Fail("Cannot find interactive element with index ",
                                       ToString(o.index)),
                             Ran(<< <<"page.query_selector", o.index>> >>, f))
               ELSE \E q \in CanRaise(<< <<"page.query_selector", o.index>> >>),
                       p \in 0..2, b \in 0..2, e \in 0..1 :
                      LET first == << <<"element.fill", el>>, <<"element.type", el>> >>
                          second == << <<"element.click", el>>, <<"keyboard.type", "text">> >>
                          typed == q = 0 /\ (p = 0 \/ b = 0)
                          cost == (IF q # 0 THEN 1 ELSE 0) + (IF p # 0 THEN 1 ELSE 0)
                                  + (IF b # 0 THEN 1 ELSE 0) + e
                          calls == Ran(<< <<"page.query_selector", o.index>> >>, q)
                                   \o (IF q # 0 THEN <<>> ELSE Ran(first, p))
                                   \o (IF q # 0 \/ p = 0 THEN <<>> ELSE Ran(second, b))
                                   \o (IF typed THEN Ran(EnterSteps(o), e) ELSE <<>>)
                      IN /\ q # 0 => (p = 0 /\ b = 0 /\ e = 0)
                         /\ p = 0 => b = 0
                         /\ (~typed \/ ~o.enter) => e = 0
                         /\ cost <= faults
                         /\ faults' = faults - cost
                         /\ Return(i,
                              IF ~typed THEN Fail("Failed to input text: ", ErrorText)
                              ELSE IF e # 0 THEN Raised(ErrorText)
                              ELSE Ok(<<>>),
                              calls)
        ELSE \E f \in CanRaise(EnterSteps(o)) :
               /\ faults' = IF f = 0 THEN faults ELSE faults - 1
               /\ Return(i, IF f = 0 THEN Ok(<<>>) ELSE Raised(ErrorText),
                         Ran(EnterSteps(o), f))
  /\ UNCHANGED <<inst_vars, attempt, retry_delay, slept, mark, page_vars, env_vars,
                 connFaults, ops, maxOps, app_vars>>

\* The arguments the caller may pass
IndexArgs == 0..MaxNodes
\* which of coordinate_x and coordinate_y are given ("x": only one of them)
Coords == {"none", "x", "both"}

CallClick(i) ==
  \E n \in IndexArgs \cup {NoIndex}, c \in Coords :
    CallOp(i, [name |-> "click", index |-> n, coords |-> c])

CallInput(i) ==
  \E n \in IndexArgs \cup {NoIndex}, c \in Coords, e \in BOOLEAN :
    CallOp(i, [name |-> "input", index |-> n, coords |-> c, enter |-> e])

CallSelectOption(i) ==
  \E n \in IndexArgs : CallOp(i, [name |-> "select_option", index |-> n])

\* lines 615-619: console_exec() evaluates the script on the page, outside
\* every try, and returns what it evaluated to
ConsoleExecBody(i) ==
  /\ pc[i] = "body"
  /\ op[i].name = "console_exec"
  /\ LET steps == << <<"page.evaluate", "javascript">> >>
     IN \E f \in CanRaise(steps) :
          /\ faults' = IF f = 0 THEN faults ELSE faults - 1
          /\ Return(i, IF f = 0 THEN Ok(<<"result">>) ELSE Raised(ErrorText),
                    Ran(steps, f))
  /\ UNCHANGED <<inst_vars, attempt, retry_delay, slept, mark, page_vars, env_vars,
                 connFaults, ops, maxOps, app_vars>>

CallConsoleExec(i) == CallOp(i, [name |-> "console_exec"])

\* ------------------------------------------------------- console_view()
\* line 621: max_lines is absent (None)
NoMaxLines == -1
\* The values of max_lines a caller may pass
MaxLinesArgs == 0..MaxLines
\* The logs the page may have buffered in window.console.logs: the lines
\* 1, 2, ..., L in the order they were written
Logs == {[k \in 1..L |-> k] : L \in 0..MaxLogLen}
\* Python's s[start:]: a negative start counts from the end of s, and a start
\* outside s is clamped
SliceFrom(s, start) ==
  LET from == IF start < 0 THEN (IF Len(s) + start < 0 THEN 0 ELSE Len(s) + start)
              ELSE Min(start, Len(s))
  IN SubSeq(s, from + 1, Len(s))
\* lines 627-628: logs[-max_lines:] unless max_lines is None
ViewedLogs(logs, max_lines) ==
  IF max_lines # NoMaxLines THEN SliceFrom(logs, 0 - max_lines) ELSE logs

\* lines 621-629: console_view() reads the buffered log from the page, outside
\* every try, and returns its last lines.  (The field logs of the outcome is
\* not in the program's data: it records what the page had buffered.)
ConsoleViewBody(i) ==
  /\ pc[i] = "body"
  /\ op[i].name = "console_view"
  /\ LET steps == << <<"page.evaluate", "console.logs">> >>
     IN \E f \in CanRaise(steps), logs \in Logs :
          /\ faults' = IF f = 0 THEN faults ELSE faults - 1
          /\ Return(i, (IF f = 0 THEN Ok(ViewedLogs(logs, op[i].max_lines))
                                 ELSE Raised(ErrorText)) @@ [logs |-> logs],
                    Ran(steps, f))
  /\ UNCHANGED <<inst_vars, attempt, retry_delay, slept, mark, page_vars, env_vars,
                 connFaults, ops, maxOps, app_vars>>

CallConsoleView(i) ==
  \E n \in MaxLinesArgs \cup {NoMaxLines} :
    CallOp(i, [name |-> "console_view", max_lines |-> n])

\* ------------------------------------------------- wait_for_page_load()
\* line 147: the seconds between two polls
check_interval == 5
\* line 135: the default of the timeout argument, in seconds
DefaultTimeout == 15
\* The timeouts a caller may pass, and the seconds a page.evaluate may take
Timeouts == 0..MaxTimeout
EvalTimes == 0..MaxEvalTime

\* A loop that gives up after its first poll.
KeepsPollingOnce(elapsed, timeout) == elapsed = 0 /\ elapsed < timeout

\* line 149: while asyncio.get_event_loop().time() - start_time < timeout
KeepsPolling(elapsed, timeout) == elapsed < timeout

\* lines 146-147: the clock is read after _ensure_page returned; elapsed is
\* the time since then, polls the polls made (when, and what they saw)
CallWaitForPageLoad(i) ==
  \E t \in Timeouts :
    CallOp(i, [name |-> "wait_for_page_load", timeout |-> t, elapsed |-> 0,
               polls |-> <<>>])

\* A view_page() that indexes only a page that finished loading.
AfterWaitLoadedOnly(value) == IF value THEN "index" ELSE "content"

\* lines 236-239: view_page() ignores what wait_for_page_load() returned
AfterWait(value) == "index"

\* lines 156 and 162: wait_for_page_load() returns value.  Called by the owner
\* it ends the operation; called by view_page() (line 236), which ignores the
\* value, it is followed by the indexing call, which starts with _ensure_page
\* (lines 239, 251).  The operation remembers the value (loaded).
WaitReturns(i, value, polls, elapsed, calls) ==
  IF op[i].name = "wait_for_page_load"
    THEN Return(i, [kind |-> "bool", value |-> value, polls |-> polls,
                    elapsed |-> elapsed], calls)
    ELSE /\ op' = [op EXCEPT ![i] = [stage |-> AfterWait(value), loaded |-> value, polls |-> polls,
                                     elapsed |-> elapsed, log |-> calls] @@ @]
         /\ pc' = [pc EXCEPT ![i] = "ensure"]
         /\ UNCHANGED ret

\* lines 149-162: one turn of the loop, or the end of it.  A poll takes d
\* seconds and sees the document complete or still loading, or raises; after
\* a poll that saw it loading the coroutine sleeps check_interval seconds.
WaitPoll(i) ==
  /\ pc[i] = "body"
  /\ \/ op[i].name = "wait_for_page_load"
     \/ op[i].name = "view_page" /\ op[i].stage = "wait"
  /\ IF KeepsPolling(op[i].elapsed, op[i].timeout)
       THEN \E d \in EvalTimes,
               r \in {"complete", "loading"} \cup (IF faults > 0 THEN {"raised"} ELSE {}) :
              LET polls == Append(op[i].polls, <<op[i].elapsed, r>>)
                  calls == [k \in 1..Len(polls) |->
                              <<"page.evaluate", "readyState", polls[k][2] # "raised">>]
              IN /\ faults' = IF r = "raised" THEN faults - 1 ELSE faults
                 /\ IF r = "complete"
                      THEN WaitReturns(i, TRUE, polls, op[i].elapsed + d, calls)
                    ELSE IF r = "raised"
                      THEN Return(i, Raised(ErrorText) @@ [polls |-> polls,
                                      elapsed |-> op[i].elapsed + d], calls)
                    ELSE /\ op' = [op EXCEPT ![i].elapsed = @ + d + check_interval,
                                             ![i].polls = polls]
                         /\ UNCHANGED <<pc, ret>>
       ELSE /\ faults' = faults
            /\ WaitReturns(i, FALSE, op[i].polls, op[i].elapsed,
                 [k \in 1..Len(op[i].polls) |-> <<"page.evaluate", "readyState", TRUE>>])
  /\ UNCHANGED <<inst_vars, attempt, retry_delay, slept, mark, page_vars, env_vars,
                 connFaults, ops, maxOps, app_vars>>

\* ------------------------------------------ view_page(), _extract_content()
\* line 218: the cap on the characters handed to the collaborator
max_content_length == 50000
\* A text is a piece of a source text: the characters lo+1 .. hi of it.
TextLen(t) == t.hi - t.lo
\* Python's t[:k] for k >= 0: the first k characters, or all when fewer
SliceTo(t, k) == [src |-> t.src, lo |-> t.lo, hi |-> Min(t.lo + k, t.hi)]
\* The lengths the converted markup of a page may have
MarkupLengths ==
  {0, 1, max_content_length - 1, max_content_length}
  \cup {max_content_length + k : k \in 1..MaxExcess}
\* what markdownify returns for a page whose markup has n characters
Markup(n) == [src |-> "markdown_content", lo |-> 0, hi |-> n]

\* An _extract_content that hands over the whole markup.
HandedWhole(m) == m

\* lines 218 and 225: markdown_content[:min(50000, len(markdown_content))]
Handed(m) == SliceTo(m, Min(max_content_length, TextLen(m)))

\* A view_page() with a try around its body, which turns an exception into a
\* failed result.
ViewCaught(text) == Fail("Failed to view page: ", text)

\* lines 231-247: view_page() and _extract_content() have no try: an
\* exception raised in them leaves view_page()
ViewRaises(text) == Raised(text)

\* line 231: view_page(); its wait uses the default timeout (line 236)
CallViewPage(i) ==
  CallOp(i, [name |-> "view_page", stage |-> "wait", timeout |-> DefaultTimeout,
             elapsed |-> 0, polls |-> <<>>, log |-> <<>>])

\* lines 239, 254-405: the indexing call of view_page(), on the page that
\* _ensure_page just returned; an exception of the script leaves view_page()
ViewIndex(i) ==
  /\ pc[i] = "body"
  /\ op[i].name = "view_page"
  /\ op[i].stage = "index"
  /\ \E evalOk \in Outcomes :
       /\ faults' = Spend(evalOk)
       /\ dom' = [dom EXCEPT ![i] = IndexedDoc(i, dom[i], evalOk)]
       /\ cache' = [cache EXCEPT ![i] = IndexedCache(i, dom[i], evalOk)]
       /\ LET calls == Append(op[i].log, <<"page.evaluate", "interactive_elements", evalOk>>)
          IN IF evalOk
               THEN /\ op' = [op EXCEPT ![i] =
                               [stage |-> "content", log |-> calls,
                                listing |-> FormatElements(IndexedCache(i, dom[i], evalOk).els)]
                               @@ @]
                    /\ UNCHANGED <<pc, ret>>
               ELSE Return(i, ViewRaises(ErrorText), calls)
  /\ UNCHANGED <<inst_vars, attempt, retry_delay, slept, mark, env_vars, connFaults, ops, maxOps, app_vars>>

\* lines 169-216: _extract_content() evaluates the script that collects the
\* visible markup and converts what it returned; an exception leaves view_page()
ViewContent(i) ==
  /\ pc[i] = "body"
  /\ op[i].name = "view_page"
  /\ op[i].stage = "content"
  /\ \E evalOk \in Outcomes, n \in MarkupLengths :
       /\ faults' = Spend(evalOk)
       /\ LET calls == Append(op[i].log, <<"page.evaluate", "visible_content", evalOk>>)
          IN IF evalOk
               THEN /\ op' = [op EXCEPT ![i] =
                               [stage |-> "ask", log |-> calls, markup |-> Markup(n)] @@ @]
                    /\ UNCHANGED <<pc, ret>>
               ELSE Return(i, ViewRaises(ErrorText), calls)
  /\ UNCHANGED <<inst_vars, attempt, retry_delay, slept, mark, page_vars, env_vars,
                 connFaults, ops, maxOps, app_vars>>

\* lines 218-229 and 241-247: the collaborator is asked, with the text of line
\* 225 (handed); its answer goes into the result with the listing; an
\* exception of llm.ask leaves view_page()
ViewAsk(i) ==
  /\ pc[i] = "body"
  /\ op[i].name = "view_page"
  /\ op[i].stage = "ask"
  /\ \E askOk \in Outcomes :
       /\ faults' = Spend(askOk)
       /\ LET calls == Append(op[i].log, <<"llm.ask", "markdown_content", askOk>>)
              handed == [handed |-> Handed(op[i].markup)]
          IN IF askOk
               THEN Return(i, Ok([interactive_elements |-> op[i].listing,
                                  content |-> "response"]) @@ handed, calls)
               ELSE Return(i, ViewRaises(ErrorText) @@ handed, calls)
  /\ UNCHANGED <<inst_vars, attempt, retry_delay, slept, mark, page_vars, env_vars,
                 connFaults, ops, maxOps, app_vars>>

\* ------------------------------------------------------ the page changes
\* The document of the page changes under the program: a node is hidden,
\* shown, removed (it loses its attributes) or added.  The program sees a change
\* when it next reads the document, so changes are taken between operations.
DomChange(i) ==
  /\ page[i] # None
  /\ pc[i] = "idle"
  /\ \E n \in Nodes :
       \/ /\ dom[i][n].present
          /\ dom' = [dom EXCEPT ![i][n].look =
                                 IF @ = "shown" THEN "display_none" ELSE "shown"]
       \/ /\ dom[i][n].present
          /\ dom' = [dom EXCEPT ![i][n] = BlankDoc[n]]
       \/ /\ ~dom[i][n].present
          /\ dom' = [dom EXCEPT ![i][n] = LoadedDoc[n]]
  /\ UNCHANGED <<inst_vars, call_vars, cache, env_vars, faults, connFaults, ops, maxOps, app_vars>>

\* The tags, role attributes and tabindex attributes the page's scripts give
\* to the nodes they make (a node gets a role or a tabindex, not both).
Tags == {"button", "input", "div"}
Attributes ==
  {[role |-> r, tabindex |-> NoTabindex] : r \in {NoRole, "button", "link"}}
    \cup {[role |-> NoRole, tabindex |-> <<k>>] : k \in {-2, -1, 0}}
\* The page's scripts build the document: they append a node with a tag, an
\* attribute and a look of their choice.  (Taken while no node carries a marker,
\* that is before the program has marked the document.)
DomRewrite(i) ==
  /\ page[i] # None
  /\ pc[i] = "idle"
  /\ \A n \in Nodes : dom[i][n].mark = NoMark
  /\ \E n \in Nodes, t \in Tags, a \in Attributes, l \in Looks :
       /\ ~dom[i][n].present
       /\ \A m \in 1..(n - 1) : dom[i][m].present
       /\ dom' = [dom EXCEPT ![i][n] = [present |-> TRUE, tag |-> t, role |-> a.role,
                                        tabindex |-> a.tabindex, look |-> l,
                                        mark |-> NoMark]]
  /\ UNCHANGED <<inst_vars, call_vars, cache, env_vars, faults, connFaults, ops, maxOps, app_vars>>

\* ------------------------------------------- main.py: _cleanup_stale_sessions
\* line 60: the default of settings.session_stale_seconds
session_stale_seconds == 86400
\* lines 88 and 93: the seconds the task sleeps between two sweeps
sweep_sleep == 60
\* line 70: a document without latest_message_at (None)
NoTime == -1
SessionIds == 1..MaxSessions
\* The time of the first sweep, and the timestamps a stored session may carry:
\* one second before the cutoff of the first sweep, the cutoff itself, and one
\* second after it
StartTime == session_stale_seconds + 1
Stamps == {StartTime - session_stale_seconds + d : d \in {-1, 0, 1}}
SessionDocs ==
  [status : {"running", "completed"}, latest_message_at : Stamps \cup {NoTime},
   updated_at : Stamps]
\* The task before its first sweep
SweepStart == [pc |-> "find", cutoff |-> 0, docs |-> <<>>, found |-> {}, tried |-> {},
               round |-> 1]

\* lines 66-73: the query of the sweep
Matches(d, cutoff) ==
  /\ d.status = "running"
  /\ \/ d.latest_message_at # NoTime /\ d.latest_message_at < cutoff
     \/ d.latest_message_at = NoTime
     \/ d.updated_at < cutoff
\* line 74: the documents the query finds, in the order of their ids, each as
\* the copy the task holds
RECURSIVE Found(_, _, _)
Found(coll, cutoff, id) ==
  IF id > MaxSessions THEN <<>>
  ELSE (IF Matches(coll[id], cutoff) THEN << [id |-> id, doc |-> coll[id]] >> ELSE <<>>)
       \o Found(coll, cutoff, id + 1)

\* lines 63-74: the cutoff is computed and the query is run.  A find() that
\* raises is logged by the outer handler (lines 91-93), which sleeps.
SweepFind ==
  /\ sweep.pc = "find"
  /\ \E ok \in Outcomes :
       /\ faults' = Spend(ok)
       /\ LET cutoff == now - session_stale_seconds
              docs == Found(sessions, cutoff, 1)
          IN sweep' = IF ok
                        THEN [sweep EXCEPT !.pc = IF docs = <<>> THEN "sleep" ELSE "save",
                                           !.cutoff = cutoff, !.docs = docs,
                                           !.found = {docs[k].id : k \in 1..Len(docs)},
                                           !.tried = {}]
                        ELSE [sweep EXCEPT !.pc = "sleep", !.docs = <<>>, !.found = {},
                                           !.tried = {}]
  /\ UNCHANGED <<inst_vars, call_vars, page_vars, env_vars, connFaults, ops, maxOps,
                 sessions, now, llm>>

\* lines 77-87: the try/except inside the loop: a save() that raises is logged
\* and the loop goes on with the documents that are left
AfterFailedSave(rest) == rest

\* lines 76-87: one round of the loop over the documents found: the copy is
\* marked COMPLETED, stamped and saved.
SweepSave ==
  /\ sweep.pc = "save"
  /\ \E ok \in Outcomes :
       LET d == Head(sweep.docs)
           rest == IF ok THEN Tail(sweep.docs) ELSE AfterFailedSave(Tail(sweep.docs))
       IN /\ faults' = Spend(ok)
          /\ sessions' = IF ok
                           THEN [sessions EXCEPT ![d.id] =
                                   [d.doc EXCEPT !.status = "completed", !.updated_at = now]]
                           ELSE sessions
          /\ sweep' = [sweep EXCEPT !.docs = rest,
                                    !.tried = @ \cup {d.id},
                                    !.pc = IF rest = <<>> THEN "sleep" ELSE "save"]
  /\ UNCHANGED <<inst_vars, call_vars, page_vars, env_vars, connFaults, ops, maxOps,
                 now, llm>>

\* lines 88 and 93: asyncio.sleep(60), then the next round of while True
SweepSleep ==
  /\ sweep.pc = "sleep"
  /\ sweep.round < SweepRounds
  /\ now' = now + sweep_sleep
  /\ sweep' = [sweep EXCEPT !.pc = "find", !.round = @ + 1]
  /\ UNCHANGED <<inst_vars, call_vars, page_vars, env_vars, run_vars, sessions, llm>>

\* A message arrives in a running session: the application stamps the stored
\* document.
SessionMessage ==
  /\ \E id \in SessionIds :
       /\ sessions[id].status = "running"
       /\ sessions[id].latest_message_at # now
       /\ sessions' = [sessions EXCEPT ![id].latest_message_at = now,
                                       ![id].updated_at = now]
  /\ UNCHANGED <<inst_vars, call_vars, page_vars, env_vars, run_vars, now, sweep, llm>>

\* ------------------------------------------------ openai_llm.py: ask()
\* line 43: the retries after the first request
ask_max_retries == 4
\* line 44: the first delay, in seconds
base_delay == 1
\* line 104: the value below which max_tokens is not reduced
min_max_tokens == 512
\* The values settings.max_tokens may have: around the multiples of the floor
ConfiguredMaxTokens ==
  {k * min_max_tokens + d : k \in 0..TokenScale, d \in {-1, 0, 1}} \ {-1, 0}
\* What a request to the API may come to: a response with choices, a response
\* without, a BadRequestError that names max_tokens, another BadRequestError,
\* or any other exception
Replies == {"choices", "no_choices", "too_large", "bad_request", "error"}
\* No call in flight
LlmIdle == [pc |-> "idle", attempt |-> 0, max_tokens |-> 0, sent |-> <<>>,
            slept |-> <<>>, replies |-> <<>>, result |-> "none", error |-> "none"]

\* line 51: delay = base_delay * (2 ** (attempt - 1))
RECURSIVE Pow2(_)
Pow2(n) == IF n = 0 THEN 1 ELSE 2 * Pow2(n - 1)
Delay(a) == base_delay * Pow2(a - 1)

\* line 104: new_max_tokens = max(512, max_tokens // 2)
Reduced(max_tokens) ==
  IF max_tokens \div 2 > min_max_tokens THEN max_tokens \div 2 ELSE min_max_tokens

\* A loop that never gives up.
LastAttemptNever(a) == FALSE

\* lines 88, 109, 120, 128: the attempt after which the error is raised
IsLastAttempt(a) == a = ask_max_retries

\* lines 45-47: ask() is called; the first request is sent without a delay
LlmAsk ==
  /\ llm.pc = "idle"
  /\ \E m \in ConfiguredMaxTokens :
       llm' = [LlmIdle EXCEPT !.pc = "request", !.max_tokens = m]
  /\ UNCHANGED <<inst_vars, call_vars, page_vars, env_vars, run_vars, sessions, now, sweep>>

\* lines 50-55: the delay before a request that is not the first
LlmSleep ==
  /\ llm.pc = "sleep"
  /\ llm' = [llm EXCEPT !.pc = "request", !.slept = Append(@, Delay(llm.attempt))]
  /\ UNCHANGED <<inst_vars, call_vars, page_vars, env_vars, run_vars, sessions, now, sweep>>

\* continue: the next round of the for loop of line 47, or its end, after
\* which the function returns None
Continue(l) ==
  IF l.attempt + 1 > ask_max_retries
    THEN [l EXCEPT !.pc = "returned", !.result = "None"]
    ELSE [l EXCEPT !.pc = "sleep", !.attempt = @ + 1]

\* lines 57-130: the request is sent with the current max_tokens and its
\* outcome handled.  (The ValueError of line 89 is raised inside the try and
\* caught by line 123, which raises it again on the last attempt.)
LlmRequest ==
  /\ llm.pc = "request"
  /\ \E r \in Replies :
       LET l == [llm EXCEPT !.sent = Append(@, llm.max_tokens),
                            !.replies = Append(@, r)]
           raised == [l EXCEPT !.pc = "raised", !.error = r]
       IN llm' =
            CASE r = "choices" -> [l EXCEPT !.pc = "returned", !.result = "message"]
              [] r = "too_large" ->
                   LET m == [l EXCEPT !.max_tokens = Reduced(@)]
                   IN IF ~IsLastAttempt(l.attempt) THEN Continue(m)
                      ELSE [m EXCEPT !.pc = "raised", !.error = r]
              [] OTHER -> IF IsLastAttempt(l.attempt) THEN raised ELSE Continue(l)
  /\ UNCHANGED <<inst_vars, call_vars, page_vars, env_vars, run_vars, sessions, now, sweep>>

\* The application outside this module's specifications of it: no session is
\* stored, the sweep has not run and no ask() is in flight.
AppIdle ==
  /\ sessions = <<>>
  /\ now = StartTime
  /\ sweep = SweepStart
  /\ llm = LlmIdle

\* ------------------------------------------------------------- __init__
InitInstances ==
  /\ browser = [i \in Inst |-> None]
  /\ context = [i \in Inst |-> None]
  /\ page = [i \in Inst |-> None]
  /\ playwright = [i \in Inst |-> None]
  /\ connected_over_cdp = [i \in Inst |-> FALSE]
  /\ pc = [i \in Inst |-> "idle"]
  /\ op = [i \in Inst |-> NoOp]
  /\ attempt = [i \in Inst |-> 0]
  /\ retry_delay = [i \in Inst |-> InitialRetryDelay]
  /\ slept = [i \in Inst |-> <<>>]
  /\ ret = [i \in Inst |-> NoRet]
  /\ dom = [i \in Inst |-> BlankDoc]
  /\ cache = [i \in Inst |-> NoCache]
  /\ nextId = [i \in Inst |-> [rt |-> 1, conn |-> 1, ctx |-> 1, page |-> 1]]
  /\ mark = [i \in Inst |-> [ctx |-> NewId(i, "ctx"), page |-> NewId(i, "page")]]
  /\ openCtx = {PreExistingCtx}
  /\ openPages = {}
  /\ pageCtx = <<>>
  /\ liveRt = {}
  /\ liveConn = {}
  /\ browserClosed = FALSE
  /\ ops = 0

Init ==
  /\ InitInstances
  /\ AppIdle
  /\ faults = 0
  /\ connFaults = MaxFaults
  /\ maxOps = MaxOps

RetryInit ==
  /\ InitInstances
  /\ AppIdle
  /\ faults = MaxFaults
  /\ connFaults = RetryFaults
  /\ maxOps = RetryOps

\* One instance, initialize() and cleanup() only, with faults enough to make
\* every attempt of a call fail.
RetryNext ==
  \/ CallInitialize(1)
  \/ Initialize(1)
  \/ Cleanup(1)

SpecRetry == RetryInit /\ [][RetryNext]_vars

\* The same instance under a scheduler: every await of initialize() completes
\* (by returning or by raising) and the event loop then resumes the coroutine.
FairInit ==
  /\ InitInstances
  /\ AppIdle
  /\ faults = MaxFaults
  /\ connFaults = RetryFaults
  /\ maxOps = FairOps

SpecRetryFair == FairInit /\ [][RetryNext]_vars /\ WF_vars(Initialize(1))

\* Two instances on the shared browser: initialize(), cleanup(), restart() and
\* navigate(), with faults in the set-up of sessions.
Next ==
  \E i \in Inst :
    \/ CallInitialize(i)
    \/ Initialize(i)
    \/ Cleanup(i)
    \/ Restart(i)
    \/ CallNavigate(i)
    \/ EnsureRest(i)
    \/ NavigateClear(i)
    \/ NavigateLoad(i)
    \/ NavigateIndex(i)

Spec == Init /\ [][Next]_vars

DomInit ==
  /\ InitInstances
  /\ AppIdle
  /\ faults = DomFaults
  /\ connFaults = MaxFaults
  /\ maxOps = DomOps

\* One instance and its page: navigation and indexing of a document that
\* changes under them, on a page that may be closed from outside.
DomNext ==
  \/ CallNavigate(1)
  \/ CallIndex(1)
  \/ Initialize(1)
  \/ EnsureRest(1)
  \/ NavigateClear(1)
  \/ NavigateLoad(1)
  \/ NavigateIndex(1)
  \/ IndexBody(1)
  \/ DomChange(1)
  \/ ExternalPageClose(1)

SpecDom == DomInit /\ [][DomNext]_vars

\* The same with the actions on the page.
ActNext ==
  \/ CallNavigate(1)
  \/ CallIndex(1)
  \/ CallClick(1)
  \/ CallInput(1)
  \/ CallSelectOption(1)
  \/ CallConsoleExec(1)
  \/ Initialize(1)
  \/ EnsureRest(1)
  \/ NavigateClear(1)
  \/ NavigateLoad(1)
  \/ NavigateIndex(1)
  \/ IndexBody(1)
  \/ ClickBody(1)
  \/ InputBody(1)
  \/ SelectBody(1)
  \/ ConsoleExecBody(1)
  \/ DomChange(1)

SpecAct == DomInit /\ [][ActNext]_vars

\* One instance on a browser that stays reachable: no call of initialize() or
\* _ensure_page raises, while the page may be closed from outside and the calls
\* on page and context may raise.
RestartInit ==
  /\ InitInstances
  /\ AppIdle
  /\ faults = RestartFaults
  /\ connFaults = 0
  /\ maxOps = RestartOps

RestartNext ==
  \/ CallNavigate(1)
  \/ Restart(1)
  \/ ExternalPageClose(1)
  \/ InitStart(1)
  \/ InitConnect(1)
  \/ InitNewContext(1)
  \/ InitNewPage(1)
  \/ EnsureRest(1)
  \/ NavigateClear(1)
  \/ NavigateLoad(1)
  \/ NavigateIndex(1)

SpecRestart == RestartInit /\ [][RestartNext]_vars

\* One instance on a browser that stays reachable, whose document changes only
\* by loading: navigate() and the actions on the page, whose calls may raise.
TryInit ==
  /\ InitInstances
  /\ AppIdle
  /\ faults = TryFaults
  /\ connFaults = 0
  /\ maxOps = TryOps

TryNext ==
  \/ CallNavigate(1)
  \/ CallClick(1)
  \/ CallInput(1)
  \/ CallSelectOption(1)
  \/ InitStart(1)
  \/ InitConnect(1)
  \/ InitNewContext(1)
  \/ InitNewPage(1)
  \/ EnsureRest(1)
  \/ NavigateClear(1)
  \/ NavigateLoad(1)
  \/ NavigateIndex(1)
  \/ ClickBody(1)
  \/ InputBody(1)
  \/ SelectBody(1)

SpecTry == TryInit /\ [][TryNext]_vars

\* One instance on a browser that stays reachable, waiting for its page to
\* load, under a scheduler: every await completes (by returning or by
\* raising) and the event loop then resumes the coroutine.
WaitInit ==
  /\ InitInstances
  /\ AppIdle
  /\ faults = WaitFaults
  /\ connFaults = 0
  /\ maxOps = WaitOps

WaitSteps(i) ==
  \/ InitStart(i)
  \/ InitConnect(i)
  \/ InitNewContext(i)
  \/ InitNewPage(i)
  \/ EnsureRest(i)
  \/ WaitPoll(i)

WaitNext ==
  \/ CallWaitForPageLoad(1)
  \/ ExternalPageClose(1)
  \/ WaitSteps(1)

SpecWait == WaitInit /\ [][WaitNext]_vars /\ WF_vars(WaitSteps(1))

\* One instance on a browser that stays reachable, loading and viewing a
\* page; the calls on the page and the collaborator may raise.
ViewInit ==
  /\ InitInstances
  /\ AppIdle
  /\ faults = ViewFaults
  /\ connFaults = 0
  /\ maxOps = ViewOps

ViewNext ==
  \/ CallNavigate(1)
  \/ CallViewPage(1)
  \/ InitStart(1)
  \/ InitConnect(1)
  \/ InitNewContext(1)
  \/ InitNewPage(1)
  \/ EnsureRest(1)
  \/ NavigateClear(1)
  \/ NavigateLoad(1)
  \/ NavigateIndex(1)
  \/ WaitPoll(1)
  \/ ViewIndex(1)
  \/ ViewContent(1)
  \/ ViewAsk(1)

SpecView == ViewInit /\ [][ViewNext]_vars

\* One instance on a browser that stays reachable, clicking elements of a
\* document that changes after it was indexed.
ClickInit ==
  /\ InitInstances
  /\ AppIdle
  /\ faults = ClickFaults
  /\ connFaults = 0
  /\ maxOps = ClickOps

ClickNext ==
  \/ CallNavigate(1)
  \/ CallClick(1)
  \/ InitStart(1)
  \/ InitConnect(1)
  \/ InitNewContext(1)
  \/ InitNewPage(1)
  \/ EnsureRest(1)
  \/ NavigateClear(1)
  \/ NavigateLoad(1)
  \/ NavigateIndex(1)
  \/ ClickBody(1)
  \/ DomChange(1)

SpecClick == ClickInit /\ [][ClickNext]_vars

\* One instance that indexes the document of its page, whatever the page's
\* scripts made of it; no call fails.
FilterInit ==
  /\ InitInstances
  /\ AppIdle
  /\ faults = 0
  /\ connFaults = 0
  /\ maxOps = FilterOps

FilterNext ==
  \/ CallIndex(1)
  \/ InitStart(1)
  \/ InitConnect(1)
  \/ InitNewContext(1)
  \/ InitNewPage(1)
  \/ EnsureRest(1)
  \/ IndexBody(1)
  \/ DomRewrite(1)

SpecFilter == FilterInit /\ [][FilterNext]_vars

\* One instance through its whole life: initialize(), cleanup(), restart(),
\* navigate() and click(), on a page that may be closed from outside, with
\* faults both in the set-up of sessions and in the calls on the page.
RefsInit ==
  /\ InitInstances
  /\ AppIdle
  /\ faults = RefsFaults
  /\ connFaults = RefsConnFaults
  /\ maxOps = RefsOps

RefsNext ==
  \/ CallInitialize(1)
  \/ Initialize(1)
  \/ Cleanup(1)
  \/ Restart(1)
  \/ CallNavigate(1)
  \/ CallClick(1)
  \/ EnsureRest(1)
  \/ NavigateClear(1)
  \/ NavigateLoad(1)
  \/ NavigateIndex(1)
  \/ ClickBody(1)
  \/ ExternalPageClose(1)

SpecRefs == RefsInit /\ [][RefsNext]_vars

\* One instance on a reachable browser whose page is replaced under its
\* snapshot: navigate() and the index-based actions, with cleanup(), restart()
\* and a page closed from outside between them.
SnapInit ==
  /\ InitInstances
  /\ AppIdle
  /\ faults = SnapFaults
  /\ connFaults = 0
  /\ maxOps = SnapOps

SnapNext ==
  \/ CallNavigate(1)
  \/ CallClick(1)
  \/ CallInput(1)
  \/ CallSelectOption(1)
  \/ Cleanup(1)
  \/ Restart(1)
  \/ ExternalPageClose(1)
  \/ InitStart(1)
  \/ InitConnect(1)
  \/ InitNewContext(1)
  \/ InitNewPage(1)
  \/ EnsureRest(1)
  \/ NavigateClear(1)
  \/ NavigateLoad(1)
  \/ NavigateIndex(1)
  \/ ClickBody(1)
  \/ InputBody(1)
  \/ SelectBody(1)

SpecSnap == SnapInit /\ [][SnapNext]_vars

\* One instance on a reachable browser that views the console of its page.
ConsoleInit ==
  /\ InitInstances
  /\ AppIdle
  /\ faults = ConsoleFaults
  /\ connFaults = 0
  /\ maxOps = ConsoleOps

ConsoleNext ==
  \/ CallConsoleView(1)
  \/ InitStart(1)
  \/ InitConnect(1)
  \/ InitNewContext(1)
  \/ InitNewPage(1)
  \/ EnsureRest(1)
  \/ ConsoleViewBody(1)

SpecConsole == ConsoleInit /\ [][ConsoleNext]_vars

\* The background task over a collection of stored sessions, with messages
\* arriving in the running ones; find() and save() may raise.
SweepInit ==
  /\ InitInstances
  /\ faults = SweepFaults
  /\ connFaults = 0
  /\ maxOps = 0
  /\ sessions \in [SessionIds -> SessionDocs]
  /\ now = StartTime
  /\ sweep = SweepStart
  /\ llm = LlmIdle

SweepNext ==
  \/ SweepFind
  \/ SweepSave
  \/ SweepSleep
  \/ SessionMessage

SpecSweep == SweepInit /\ [][SweepNext]_vars

\* One call of ask(), for every configured max_tokens and every pattern of
\* replies; the event loop resumes the coroutine after every await.
AskInit ==
  /\ InitInstances
  /\ faults = 0
  /\ connFaults = 0
  /\ maxOps = 0
  /\ sessions = <<>>
  /\ now = StartTime
  /\ sweep = SweepStart
  /\ llm = LlmIdle

AskNext ==
  \/ LlmAsk
  \/ LlmSleep
  \/ LlmRequest

SpecAsk == AskInit /\ [][AskNext]_vars /\ WF_vars(LlmSleep) /\ WF_vars(LlmRequest)

\* One instance that is never initialized explicitly: the index-based actions
\* set the session up themselves, against a browser that may stay unreachable.
LazyNext ==
  \/ CallClick(1)
  \/ CallInput(1)
  \/ CallSelectOption(1)
  \/ Initialize(1)
  \/ EnsureRest(1)
  \/ ClickBody(1)
  \/ InputBody(1)
  \/ SelectBody(1)

SpecLazy == RetryInit /\ [][LazyNext]_vars

\* ------------------------------------------------------------ properties
\* A step in which instance i runs cleanup(): called directly, by restart(),
\* or by the except clause of initialize().
RunsCleanup(i) == Cleanup(i) \/ Restart(i) \/ InitHandler(i)

\* C1: a cleanup() or restart() by one instance never closes the shared
\* browser, and neither closes nor forgets the context or the page of any
\* other instance.
C1_OtherInstancesUntouched ==
  [][\A i \in Inst :
       RunsCleanup(i) =>
         /\ ~browserClosed'
         /\ liveConn' = liveConn
         /\ \A j \in Inst \ {i} :
              /\ context'[j] = context[j]
              /\ page'[j] = page[j]
              /\ (context[j] \in openCtx => context[j] \in openCtx')
              /\ (page[j] \in openPages => page[j] \in openPages')]_vars

\* Instance 1 has cleaned up a session of its own while instance 2 holds an
\* open context and page on the same browser.
C1_Witness ==
  /\ ret[1].op.name = "cleanup"
  /\ Len(ret[1].calls) = 2
  /\ connected_over_cdp[1]
  /\ page[1] = None
  /\ context[2] \in openCtx
  /\ page[2] \in openPages

\* C2: cleanup() with the shared flag true leaves the browser and runtime
\* references as they were, closes neither, and leaves context and page
\* empty; with the flag false it also issues close() on the browser and stop()
\* on the runtime it holds and clears both references.  This holds whether or
\* not the close() calls raised.
C2_CleanupFrame ==
  [][\A i \in Inst :
       (Cleanup(i) \/ InitHandler(i)) =>
         /\ context'[i] = None
         /\ page'[i] = None
         /\ IF connected_over_cdp[i]
              THEN /\ browser'[i] = browser[i]
                   /\ playwright'[i] = playwright[i]
                   /\ liveConn' = liveConn
                   /\ liveRt' = liveRt
                   /\ ~browserClosed'
              ELSE /\ browser'[i] = None
                   /\ playwright'[i] = None
                   /\ browser[i] \notin liveConn'
                   /\ playwright[i] \notin liveRt']_vars

\* A cleanup() in which a close() raised has left a connected instance with
\* its browser and runtime and without context and page, after the first
\* attempt of its initialize() had stopped the runtime it had started.
C2_Witness ==
  /\ ret[1].op.name = "cleanup"
  /\ \E k \in 1..Len(ret[1].calls) : ~ret[1].calls[k][3]
  /\ connected_over_cdp[1]
  /\ browser[1] \in liveConn
  /\ playwright[1] \in liveRt
  /\ context[1] = None
  /\ nextId[1].rt > 2
  /\ Cardinality(liveRt) = 1

\* C3: every initialize() that succeeds leaves the instance with a context and
\* a page that this call created: the context is not one that was on the
\* browser before the call.  No two instances hold the same context or page.
C3_FreshContextAndPage ==
  [][\A i \in Inst :
       /\ (pc[i] = "newpage" /\ pc'[i] \in {"idle", "ensure"} =>
             /\ context'[i] # None
             /\ page'[i] # None
             /\ context'[i] \notin {PreExistingCtx}
             /\ MadeFor(context'[i]) = i
             /\ context'[i] >= mark[i].ctx
             /\ MadeFor(page'[i]) = i
             /\ page'[i] >= mark[i].page
             /\ pageCtx'[page'[i]] = context'[i])
       /\ \A j \in Inst \ {i} :
            /\ (context'[i] # None => context'[i] # context'[j])
            /\ (page'[i] # None => page'[i] # page'[j])]_vars

\* Both instances have returned True from initialize() on the same browser.
C3_Witness ==
  \A i \in Inst :
    /\ ret[i].op.name = "initialize"
    /\ ret[i].kind = "bool"
    /\ ret[i].value
    /\ context[i] \in openCtx
    /\ page[i] \in openPages

\* The snapshot an instance has: the cache of the page it holds.  (The cache
\* of a closed page is never read: _ensure_page replaces the page first.)
Snapshot(i) == IF page[i] \in openPages /\ cache[i].set THEN cache[i].els ELSE <<>>
\* The nodes of a document that pass the filters of the indexing script.
Passing(d) == {n \in Nodes : Passes(d, n)}
\* A step in which an indexing call of instance i ends: on its own, or as the
\* last part of navigate().
IndexingEnds(i) ==
  /\ pc[i] = "body"
  /\ op[i].name \in {"index", "navigate"}
  /\ pc'[i] = "idle"
\* ... having run the script to its end
IndexingSucceeds(i) == IndexingEnds(i) /\ ret'[i].success

\* C4: when an indexing call has produced a snapshot, the marker locator of
\* every index below its length matches exactly one node of the document: the
\* node of the element listed at that position of the snapshot.
C4_MarkerMatchesOneNode ==
  [][\A i \in Inst :
       IndexingSucceeds(i) =>
         \A k \in 1..Len(Snapshot(i)') :
           Matching(dom'[i], Selector(k - 1)) = {Snapshot(i)'[k].node}]_vars

\* C5: the elements of a snapshot are the nodes that pass the filters, in
\* document order, numbered 0, 1, 2, ... without gaps, and the listing has one
\* line index:<tag>text</tag> for each, in that order.
C5_ConsecutiveIndices ==
  [][\A i \in Inst :
       IndexingSucceeds(i) =>
         LET els == Snapshot(i)'
             lines == ret'[i].data
         IN /\ \A k \in 1..Len(els) : els[k].index = k - 1
            /\ \A k, l \in 1..Len(els) : k < l => els[k].node < els[l].node
            /\ {els[k].node : k \in 1..Len(els)} = Passing(dom[i])
            /\ Len(lines) = Len(els)
            /\ \A k \in 1..Len(els) :
                 lines[k] = ToString(k - 1) \o ":<" \o TagOf(els[k].node) \o ">"
                            \o TextOf(els[k].node)
                            \o "</" \o TagOf(els[k].node) \o ">"]_vars

\* The first node of the document is filtered out and the second is element 0
\* of the snapshot an indexing call returned.
C5_Witness ==
  /\ ret[1].op.name = "index"
  /\ ret[1].kind = "value"
  /\ Len(ret[1].data) = 1
  /\ Len(Snapshot(1)) = 1
  /\ Snapshot(1)[1].node = 2
  /\ dom[1][1].present

\* C6: navigate() has emptied the snapshot when it starts to load the URL; an
\* indexing call that runs to its end leaves exactly the elements that passed
\* the filters during that call, whatever the snapshot held before; one that
\* fails leaves the snapshot empty.
C6_SnapshotReplaced ==
  [][\A i \in Inst :
       /\ (pc'[i] = "goto" => Snapshot(i)' = <<>>)
       /\ (IndexingSucceeds(i) =>
             /\ Len(Snapshot(i)') = Cardinality(Passing(dom[i]))
             /\ {Snapshot(i)'[k].node : k \in 1..Len(Snapshot(i)')} = Passing(dom[i]))
       /\ (IndexingEnds(i) /\ ~ret'[i].success => Snapshot(i)' = <<>>)
       /\ (pc[i] = "ensure" /\ pc'[i] = "idle" /\ op[i].name \in {"index", "navigate"}
             => Snapshot(i)' = <<>>)]_vars

\* navigate() is about to load a URL into a page that carries the markers of
\* an earlier snapshot, and the snapshot is empty.
C6_Witness ==
  /\ pc[1] = "goto"
  /\ Snapshot(1) = <<>>
  /\ \E n \in Nodes : dom[1][n].mark # NoMark

\* The script of an indexing call has raised on a page that carries the
\* markers of an earlier snapshot, and the snapshot is empty.
C6_WitnessFailed ==
  /\ ret[1].op.name = "index"
  /\ ret[1].kind = "raised"
  /\ Len(ret[1].calls) = 1
  /\ page[1] \in openPages
  /\ cache[1] = EmptyCache
  /\ \E n \in Nodes : dom[1][n].mark # NoMark

\* The calls that act on the page
Dispatches ==
  {"element.click", "element.fill", "element.type", "element.select_option",
   "mouse.click", "keyboard.type", "keyboard.press"}
\* An operation of instance i has ended that was given index N in index form.
EndedWithIndex(i) ==
  \/ ret[i].op.name = "select_option"
  \/ ret[i].op.name \in {"click", "input"} /\ IndexForm(ret[i].op)

\* C7: click(index=N), input(index=N) and select_option(index=N) with N not
\* below the length of the snapshot (an empty or never computed one included)
\* return a result with success false whose message names N, and dispatch no
\* action.
C7_IndexOutOfSnapshot ==
  \A i \in Inst :
    EndedWithIndex(i) /\ ret[i].op.index >= Len(Snapshot(i)) =>
      /\ ret[i].kind = "result"
      /\ ~ret[i].success
      /\ ret[i].message.arg = ToString(ret[i].op.index)
      /\ \A k \in 1..Len(ret[i].calls) : ret[i].calls[k][1] \notin Dispatches

\* initialize() called by the owner has returned to it
InitializeEnded(i) == ret[i].op.name = "initialize" /\ pc[i] = "idle"

\* C8: initialize() terminates; it returns True or False, never anything else
\* and never an exception; it returns False only after exactly max_retries
\* attempts, and makes no attempt beyond that.
C8_InitializeTerminates ==
  /\ [](\A i \in Inst :
          /\ attempt[i] < max_retries
          /\ InitializeEnded(i) =>
               /\ ret[i].kind = "bool"
               /\ ret[i].value \in BOOLEAN
               /\ (~ret[i].value =>
                     /\ attempt[i] = max_retries - 1
                     /\ Len(slept[i]) = max_retries - 1))
  /\ \A i \in Inst : (pc[i] # "idle") ~> (pc[i] = "idle")

\* Every attempt failed, one of them with a close() that raised during the
\* cleanup, and initialize() returned False.
C8_Witness ==
  /\ InitializeEnded(1)
  /\ ret[1].kind = "bool"
  /\ ~ret[1].value
  /\ attempt[1] = max_retries - 1
  /\ faults < MaxFaults

\* C9: when every attempt fails, the waits of initialize() are 1, 2, 4, 8 and
\* 10 seconds: starting at the initial delay, doubling, capped.
C9_DelaySequence ==
  \A i \in Inst :
    InitializeEnded(i) /\ ret[i].kind = "bool" /\ ~ret[i].value =>
      slept[i] = [k \in 1..max_retries |->
                    Min(InitialRetryDelay * 2^(k - 1), MaxRetryDelay)]

\* The contexts and pages instance i has made since its initialize() began
MadeInCall(i, kind) ==
  {x \in mark[i][kind]..(NewId(i, kind) - 1) : MadeFor(x) = i}
\* initialize() of instance i is between two attempts
BetweenAttempts(i) == pc[i] = "sleep" \/ (pc[i] = "start" /\ attempt[i] > 0)
\* initialize() of instance i has given up
GaveUp(i) == InitializeEnded(i) /\ ret[i].kind = "bool" /\ ~ret[i].value

\* C10: between two attempts of initialize(), and when it has returned False,
\* close() has been issued on every context and page the call had made and the
\* instance refers to no context and no page.
C10_FailedAttemptReleased ==
  \A i \in Inst :
    BetweenAttempts(i) \/ GaveUp(i) =>
      /\ context[i] = None
      /\ page[i] = None
      /\ MadeInCall(i, "ctx") \cap openCtx = {}
      /\ MadeInCall(i, "page") \cap openPages = {}

\* An attempt has failed after it had made a context, and initialize() waits
\* for the next one.
C10_Witness ==
  /\ pc[1] = "sleep"
  /\ MadeInCall(1, "ctx") # {}
  /\ context[1] = None

\* The instance is READY with a live page.
ReadyLive(i) ==
  /\ browser[i] # None
  /\ context[i] # None
  /\ page[i] \in openPages
\* A step of the _ensure_page that opens an operation of instance i: the
\* operation is called (restart(), which cleans up first, aside), or the rest
\* of _ensure_page runs.
EnsureStep(i) ==
  \/ /\ pc[i] = "idle"
     /\ pc'[i] # "idle"
     /\ op'[i].name # "initialize"
     /\ ~(op'[i].name = "navigate" /\ op'[i].via = "restart")
  \/ pc[i] = "ensure" /\ pc'[i] # "ensure"
\* No driver runtime is started and no connection is dialed.
NothingDialed ==
  /\ liveRt' = liveRt
  /\ liveConn' = liveConn
  /\ \A j \in Inst : nextId'[j].rt = nextId[j].rt /\ nextId'[j].conn = nextId[j].conn

\* C11: on an instance that is READY with a live page, _ensure_page changes
\* nothing: it keeps the page, dials nothing and makes no context and no
\* page, and it goes straight on (so running it again starts from the same
\* state and gives the same state).
C11_EnsureIdempotent ==
  [][\A i \in Inst :
       ReadyLive(i) /\ EnsureStep(i) =>
         /\ inst_vars' = inst_vars
         /\ env_vars' = env_vars
         /\ page_vars' = page_vars
         /\ NothingDialed
         /\ pc'[i] = (IF pc[i] = "idle" THEN "ensure" ELSE "body")]_vars

\* The second operation of an instance has passed _ensure_page with the only
\* connection, context and page the instance ever made.
C11_Witness ==
  /\ ops = 2
  /\ pc[1] = "body"
  /\ ReadyLive(1)
  /\ nextId[1] = [rt |-> 2, conn |-> 2, ctx |-> 2, page |-> 2]

\* C12: when the page of a READY instance was closed from outside, the next
\* operation does not run initialize(); its _ensure_page dials nothing, leaves
\* the browser, runtime and context references as they are and, unless
\* new_page raises, makes a new page in the context the instance has.
C12_ClosedPageReplaced ==
  [][\A i \in Inst :
       /\ browser[i] # None
       /\ context[i] \in openCtx
       /\ page[i] # None
       /\ page[i] \notin openPages
       /\ EnsureStep(i)
       => /\ NothingDialed
          /\ browser'[i] = browser[i]
          /\ playwright'[i] = playwright[i]
          /\ context'[i] = context[i]
          /\ openCtx' = openCtx
          /\ pc[i] = "idle" => pc'[i] = "ensure" /\ page'[i] = page[i]
          /\ pc'[i] = "body" =>
               /\ page'[i] \in openPages'
               /\ page'[i] \notin openPages
               /\ page'[i] \notin DOMAIN pageCtx
               /\ pageCtx'[page'[i]] = context[i]]_vars

\* An operation has passed _ensure_page with a second page, made in the only
\* context of the instance, over the only connection it ever dialed.
C12_Witness ==
  /\ pc[1] = "body"
  /\ ReadyLive(1)
  /\ nextId[1] = [rt |-> 2, conn |-> 2, ctx |-> 2, page |-> 3]
  /\ pageCtx[page[1]] = context[1]
  /\ Cardinality(openPages) = 1

\* C13: cleanup() never raises; it attempts page.close() first and
\* context.close() second, the second whether or not the first raised; the
\* failures are swallowed; the page and context references are empty when it
\* returns.
C13_CleanupBestEffort ==
  [][\A i \in Inst :
       Cleanup(i) =>
         LET calls == ret'[i].calls
             closesPage == page[i] # None /\ page[i] \in openPages
             k == IF closesPage THEN 2 ELSE 1
         IN /\ ret'[i].op.name = "cleanup"
            /\ ret'[i].kind = "none"
            /\ pc'[i] = "idle"
            /\ page'[i] = None
            /\ context'[i] = None
            /\ closesPage =>
                 /\ Len(calls) >= 1
                 /\ calls[1][1] = "page.close" /\ calls[1][2] = page[i]
            /\ context[i] # None =>
                 /\ Len(calls) >= k
                 /\ calls[k][1] = "context.close" /\ calls[k][2] = context[i]
                 /\ context[i] \notin openCtx']_vars

\* cleanup() has returned after its page.close() raised and its
\* context.close() was attempted.
C13_Witness ==
  /\ ret[1].op.name = "cleanup"
  /\ Len(ret[1].calls) = 2
  /\ ret[1].calls[1][1] = "page.close" /\ ~ret[1].calls[1][3]
  /\ ret[1].calls[2][1] = "context.close" /\ ret[1].calls[2][3]
  /\ page[1] = None
  /\ context[1] = None

\* C14 as stated: no step changes the shared flag of any instance.
C14_FlagImmutable == [][connected_over_cdp' = connected_over_cdp]_vars

\* C14: the flag of an instance is false from __init__ on, is set by the
\* first connect_over_cdp that returns (line 48), and never changes after
\* that: no cleanup(), restart(), failed attempt or other operation clears it.
C14_FlagSetOnceByConnect ==
  [][\A i \in Inst :
       connected_over_cdp'[i] # connected_over_cdp[i] =>
         /\ ~connected_over_cdp[i]
         /\ connected_over_cdp'[i]
         /\ pc[i] = "connect"
         /\ pc'[i] = "newctx"
         /\ browser'[i] # None]_vars

\* The flag of an instance was set by a connect; the attempt then failed, its
\* cleanup() ran, and the flag is still set while the instance waits.
C14_Witness ==
  /\ connected_over_cdp[1]
  /\ pc[1] = "sleep"
  /\ context[1] = None
  /\ nextId[1].ctx > 1

\* The objects of a kind made so far, for any instance
EverMade(kind) ==
  UNION {{Cardinality(Inst) * k + j : k \in 1..(nextId[j][kind] - 1)} : j \in Inst}
\* A step of the try block of initialize()
TryStep(i) == pc[i] \in {"start", "connect", "newctx", "newpage"} /\ pc'[i] # pc[i]

\* C15: initialize() can follow cleanup() again and again: an attempt fails
\* only when one of its calls raised, so against a reachable browser the call
\* returns True in its first attempt; and when initialize() returns True, on
\* a fresh instance or after any cleanup(), the instance holds an open context
\* and an open page that did not exist before the call, so neither is one
\* that an earlier cleanup() closed.
C15_LifecycleRepeats ==
  [][\A i \in Inst :
       /\ TryStep(i) /\ pc'[i] = "handler" => connFaults' < connFaults
       /\ TryStep(i) /\ connFaults' = connFaults /\ pc[i] = "newpage"
            /\ op[i].name = "initialize" =>
              /\ pc'[i] = "idle"
              /\ ret'[i].kind = "bool"
              /\ ret'[i].value
       /\ TryStep(i) /\ pc'[i] = "newpage" =>
              /\ context'[i] \in openCtx'
              /\ context'[i] \notin EverMade("ctx") \cup {PreExistingCtx}
       /\ TryStep(i) /\ pc'[i] = "idle" =>
              /\ ret'[i].value
              /\ context'[i] = context[i]
              /\ context'[i] \in openCtx'
              /\ page'[i] \in openPages'
              /\ page'[i] \notin EverMade("page")]_vars

\* The instance went through initialize(), cleanup() and initialize() again:
\* it holds its second context and page, and the first ones are closed.
C15_Witness ==
  /\ InitializeEnded(1)
  /\ ret[1].kind = "bool"
  /\ ret[1].value
  /\ ops = 3
  /\ nextId[1].ctx = 3
  /\ nextId[1].page = 3
  /\ context[1] = FirstId(1, "ctx") + Cardinality(Inst)
  /\ FirstId(1, "ctx") \notin openCtx
  /\ FirstId(1, "page") \notin openPages

\* The restart() that instance i made is over.
RestartEnded(i) ==
  /\ ret[i].op.name = "navigate"
  /\ ret[i].op.via = "restart"

\* The restart() of instance i, called when its page was closed, returns.
ClosedRestartReturns(i) ==
  /\ op[i].name = "navigate"
  /\ op[i].via = "restart"
  /\ op[i].closed
  /\ pc'[i] = "idle"

\* C16: a restart() called when the page was closed from outside, on a browser
\* that stays reachable, makes no close() call on the closed page and returns
\* a result, which is a success unless the indexing script itself raised; on
\* return the instance holds an open page in an open context, neither of them
\* one that its cleanup() closed.
C16_RestartAfterPageClosed ==
  [][\A i \in Inst :
       ClosedRestartReturns(i) =>
         /\ \A k \in 1..Len(op[i].cleaned) : op[i].cleaned[k][1] # "page.close"
         /\ ret'[i].kind = "result"
         /\ ret'[i].calls[Len(ret'[i].calls)][3] => ret'[i].success
         /\ browser'[i] # None
         /\ context'[i] \in openCtx'
         /\ page'[i] \in openPages'
         /\ pageCtx'[page'[i]] = context'[i]
         /\ \A k \in 1..Len(op[i].cleaned) :
               op[i].cleaned[k][2] \notin {page'[i], context'[i]}]_vars

C16_Witness ==
  /\ RestartEnded(1) /\ ret[1].op.closed /\ pc[1] = "idle"
  /\ ret[1].kind = "result" /\ ret[1].success
  /\ ReadyLive(1)
  /\ Len(ret[1].op.cleaned) = 1 /\ ret[1].op.cleaned[1][1] = "context.close"

\* The first operation ever made is a navigate() of instance i, which the
\* constructor left without runtime, browser, context and page.
FirstNavigate(i) ==
  /\ ops = 1
  /\ LET o == IF pc[i] = "idle" THEN ret[i].op ELSE op[i]
     IN o.name = "navigate" /\ o.via = "navigate"

\* Instance i holds a started runtime, a connected browser, and an open page
\* in an open context of its own.
SessionMade(i) ==
  /\ playwright[i] \in liveRt
  /\ browser[i] \in liveConn
  /\ context[i] \in openCtx \ {PreExistingCtx}
  /\ page[i] \in openPages
  /\ pageCtx[page[i]] = context[i]

\* C17: a navigate() on a fresh instance runs initialize() first: nothing is
\* loaded or indexed while the session is being made, the URL is loaded on a
\* page of a new context over a new connection, and on a browser that stays
\* reachable the operation returns a result, which is a success carrying the
\* list of the elements just indexed unless the indexing script itself raised.
C17_NavigateLazyInit ==
  \A i \in Inst :
    FirstNavigate(i) =>
      /\ pc[i] \in {"start", "connect", "newctx", "newpage", "handler", "sleep"} =>
            dom[i] = BlankDoc /\ cache[i] = NoCache
      /\ pc[i] \in {"body", "goto"} => SessionMade(i)
      /\ pc[i] = "idle" =>
            /\ ret[i].kind = "result"
            /\ ret[i].calls[Len(ret[i].calls)][3] =>
                  /\ ret[i].success
                  /\ DOMAIN ret[i].data = 1..Len(ret[i].data)
                  /\ ret[i].data = FormatElements(cache[i].els)

C17_Witness ==
  /\ FirstNavigate(1) /\ pc[1] = "idle"
  /\ ret[1].kind = "result" /\ ret[1].success
  /\ SessionMade(1)
  /\ nextId[1] = [rt |-> 2, conn |-> 2, ctx |-> 2, page |-> 2]
  /\ Len(ret[1].data) > 0

\* the same with the empty list: the load failed and left the blank document
C17_WitnessEmpty ==
  /\ FirstNavigate(1) /\ pc[1] = "idle"
  /\ ret[1].kind = "result" /\ ret[1].success
  /\ ret[1].data = <<>>

\* C18: the load of navigate() never ends the operation, whether page.goto
\* returned or raised: the indexing call always follows.  When the operation
\* returns from its indexing call (after a load that raised as after one that
\* returned), it returns a result, which fails only if a call made after the
\* load raised (_ensure_page or the indexing script); otherwise it is a
\* success whose list is computed from the document as the load attempt and
\* later changes left it.
C18_LoadFailureTolerated ==
  [][\A i \in Inst :
       /\ pc[i] = "goto" /\ pc'[i] # "goto" =>
            /\ pc'[i] = "ensure"
            /\ op'[i].name = "navigate" /\ op'[i].stage = "index"
            /\ ret'[i] = ret[i]
       /\ op[i].name = "navigate" /\ op[i].stage = "index" /\ pc'[i] = "idle" =>
            /\ ret'[i].kind = "result"
            /\ ret'[i].success <=> ret'[i].calls[Len(ret'[i].calls)][3]
            /\ ret'[i].success =>
                  /\ ret'[i].data = FormatElements(Scan(dom[i], 1, 0, <<>>).els)
                  /\ cache'[i].els = Scan(dom[i], 1, 0, <<>>).els]_vars

\* The second operation, a navigate() on the page the first operation made,
\* is a success with a list of elements although its page.goto raised.
C18_Witness ==
  /\ ops = 2
  /\ pc[1] = "idle"
  /\ ret[1].op.name = "navigate"
  /\ ret[1].op.stage = "index"
  /\ ~ret[1].op.loaded
  /\ ret[1].kind = "result" /\ ret[1].success
  /\ Len(ret[1].data) > 0
  /\ nextId[1] = [rt |-> 2, conn |-> 2, ctx |-> 2, page |-> 2]
  /\ page[1] \in openPages

\* The operations whose page exceptions are said to be caught
PageActions == {"click", "input", "select_option", "console_exec"}

\* The operation of instance i ended on a call of its body that raised.
EndedOnPageException(i) ==
  /\ pc[i] = "idle"
  /\ ret[i].op.name \in PageActions
  /\ ret[i].calls # <<>>
  /\ ~ret[i].calls[Len(ret[i].calls)][3]
  /\ ret[i].calls[Len(ret[i].calls)][1] \notin {"browser.new_context", "context.new_page"}

\* C19: an exception the page throws during click(), input(),
\* select_option() or console_exec() does not leave the operation: the
\* operation returns a result with success=false that carries the error text.
C19_PageExceptionsCaught ==
  \A i \in Inst :
    EndedOnPageException(i) =>
      /\ ret[i].kind = "result"
      /\ ~ret[i].success
      /\ ret[i].message.arg = ErrorText

\* The operation of instance i, other than initialize(), ended after its
\* _ensure_browser ran initialize() and all attempts failed.
LazyInitExhausted(i) ==
  /\ pc[i] = "idle"
  /\ ret[i].op.name \notin {"none", "initialize", "cleanup"}
  /\ attempt[i] = max_retries - 1
  /\ page[i] = None

\* C20: an operation other than initialize() whose lazy initialization used
\* up all its attempts still returns a result object, with success=false.
C20_ResultAfterFailedLazyInit ==
  \A i \in Inst :
    LazyInitExhausted(i) => ret[i].kind = "result" /\ ~ret[i].success

\* The positions of the calls named name among calls
CallsOf(calls, name) == {k \in 1..Len(calls) : calls[k][1] = name}
\* The calls named in names were all made and all returned.
AllReturned(calls, names) ==
  \A n \in names : \E k \in CallsOf(calls, n) : calls[k][3]

\* The input() of instance i, in its index form, ended after it found its
\* element on the page.
InputOnElementEnded(i) ==
  /\ pc[i] = "idle"
  /\ ret[i].op.name = "input"
  /\ IndexForm(ret[i].op)
  /\ Len(ret[i].calls) >= 2
  /\ ret[i].calls[1] = <<"page.query_selector", ret[i].op.index, TRUE>>

\* C21: input() on an element of the snapshot tries fill-then-type first and
\* click-then-keyboard-type only after a call of the first path raised; when
\* either path went through and press_enter is set, exactly one Enter press
\* follows the typing as the last call and the result is success=true (with
\* no Enter press when press_enter is not set); when both paths raised, no
\* Enter press is made and the result is success=false.
C21_InputPathsAndEnter ==
  \A i \in Inst :
    InputOnElementEnded(i) =>
      LET c == ret[i].calls
          firstOk == AllReturned(c, {"element.fill", "element.type"})
          secondOk == AllReturned(c, {"element.click", "keyboard.type"})
          presses == CallsOf(c, "keyboard.press")
      IN /\ c[2][1] = "element.fill"
         /\ \A k \in CallsOf(c, "element.click") : k > 2 /\ ~c[k - 1][3]
         /\ firstOk => CallsOf(c, "element.click") = {}
         /\ (firstOk \/ secondOk) =>
               /\ presses = IF ret[i].op.enter THEN {Len(c)} ELSE {}
               /\ ret[i].kind = "result" /\ ret[i].success
         /\ ~(firstOk \/ secondOk) =>
               /\ presses = {}
               /\ ret[i].kind = "result" /\ ~ret[i].success

\* The operations that act on the page
ActionOps == {"click", "input", "select_option", "navigate"}
ActionEnded(i) == pc[i] = "idle" /\ ret[i].op.name \in ActionOps
\* No call was made twice on the same target.
NoCallTwice(c) ==
  \A j, k \in 1..Len(c) : j # k => <<c[j][1], c[j][2]>> # <<c[k][1], c[k][2]>>
\* What the caller gets is a failure: a failed result or an exception.
FailedOutcome(r) == r.kind = "raised" \/ (r.kind = "result" /\ ~r.success)
\* The navigate() that ended went past its page.goto, which raised.
LoadRaised(r) ==
  /\ r.op.name = "navigate"
  /\ r.op.stage = "index"
  /\ ~r.op.loaded

\* C22 as stated: click(), input(), select_option() and navigate() make no
\* call twice, a call that raises is the last call of the operation, and the
\* operation then ends in a failure.
C22_FailureSurfacedAtOnce ==
  \A i \in Inst :
    ActionEnded(i) =>
      /\ NoCallTwice(ret[i].calls)
      /\ \A k \in 1..Len(ret[i].calls) :
            ~ret[i].calls[k][3] => k = Len(ret[i].calls) /\ FailedOutcome(ret[i])
      /\ LoadRaised(ret[i]) => FailedOutcome(ret[i])

\* C22 as amended: no call is made twice; a call that raises ends the
\* operation in a failure, except that input() goes on with element.click
\* (its second path) after element.fill or element.type raised, and that
\* navigate() goes on with its one indexing call after page.goto raised,
\* whose outcome alone decides the result.
C22_SingleAttemptPerCall ==
  \A i \in Inst :
    ActionEnded(i) =>
      LET c == ret[i].calls
      IN /\ NoCallTwice(c)
         /\ \A k \in 1..Len(c) :
               ~c[k][3] =>
                 \/ k = Len(c) /\ FailedOutcome(ret[i])
                 \/ /\ ret[i].op.name = "input"
                    /\ c[k][1] \in {"element.fill", "element.type"}
                    /\ c[k + 1][1] = "element.click"
         /\ LoadRaised(ret[i]) =>
               /\ Len(c) = 1
               /\ c[1][1] \in {"page.evaluate", "context.new_page"}
               /\ ret[i].kind = "result" /\ (ret[i].success <=> c[1][3])

\* input() went on to its second path after element.fill raised, and succeeded
C22_Witness ==
  /\ ActionEnded(1)
  /\ ret[1].op.name = "input"
  /\ Len(ret[1].calls) = 4
  /\ ret[1].calls[2] = <<"element.fill", 1, FALSE>>
  /\ ret[1].calls[3][1] = "element.click"
  /\ ret[1].kind = "result" /\ ret[1].success

\* click() ended in a failed result on its only attempt to click
C22_WitnessClick ==
  /\ ActionEnded(1)
  /\ ret[1].op.name = "click"
  /\ ret[1].calls # <<>>
  /\ ret[1].calls[Len(ret[1].calls)] = <<"element.click", 1, FALSE>>
  /\ CallsOf(ret[1].calls, "element.click") = {Len(ret[1].calls)}
  /\ ret[1].kind = "result" /\ ~ret[1].success

\* wait_for_page_load() of instance i is over
WaitEnded(i) == pc[i] = "idle" /\ ret[i].op.name = "wait_for_page_load"
\* the polls that saw the document complete
SawComplete(polls) == {k \in 1..Len(polls) : polls[k][2] = "complete"}

\* C23: wait_for_page_load() terminates.  Its polls are check_interval
\* seconds apart (plus the time a poll takes) and all start before the
\* timeout has elapsed; it returns True exactly when a poll saw the document
\* complete, which is then its last poll, and False only when the timeout has
\* elapsed; it ends with an exception only when a poll itself raised, never
\* because of the timeout.
C23_WaitTerminates ==
  /\ [](\A i \in Inst :
          WaitEnded(i) =>
            LET p == ret[i].polls
            IN /\ \A k \in 1..Len(p) : p[k][1] < ret[i].op.timeout
               /\ \A k \in 1..(Len(p) - 1) :
                     /\ p[k + 1][1] - p[k][1] >= check_interval
                     /\ p[k + 1][1] - p[k][1] <= check_interval + MaxEvalTime
               /\ Len(p) > 0 => p[1][1] = 0
               /\ ret[i].kind \in {"bool", "raised"}
               /\ ret[i].kind = "bool" =>
                     /\ ret[i].value <=> SawComplete(p) # {}
                     /\ ret[i].value => SawComplete(p) = {Len(p)}
                     /\ ~ret[i].value => ret[i].elapsed >= ret[i].op.timeout
               /\ ret[i].kind = "raised" =>
                     Len(p) > 0 /\ p[Len(p)][2] = "raised")
  /\ \A i \in Inst : (pc[i] # "idle") ~> (pc[i] = "idle")

\* With the default timeout, three polls saw the document loading and False
\* was returned.
C23_Witness ==
  /\ WaitEnded(1)
  /\ ret[1].op.timeout = DefaultTimeout
  /\ ret[1].kind = "bool" /\ ~ret[1].value
  /\ Len(ret[1].polls) = 3
  /\ ret[1].elapsed >= DefaultTimeout

\* The second poll saw the document complete and True was returned.
C23_WitnessLoaded ==
  /\ WaitEnded(1)
  /\ ret[1].kind = "bool" /\ ret[1].value
  /\ Len(ret[1].polls) = 2

\* instance i is in its view_page()
InViewPage(i) == op[i].name = "view_page"
\* the names of the calls made, in order
CallNames(c) == [k \in 1..Len(c) |-> c[k][2]]
\* the calls of a view_page() that went through, after n polls
ViewOrder(n) ==
  [k \in 1..n |-> "readyState"]
  \o <<"interactive_elements", "visible_content", "markdown_content">>

\* C24: view_page() obtains an open page first, then waits for the load, then
\* indexes, then extracts the content, each once and in this order; the
\* indexing follows the wait whether it returned True or False and stores the
\* elements the document holds at that moment; the result of view_page()
\* carries the listing of exactly the stored snapshot together with the
\* content.
C24_ViewPageOrder ==
  [][\A i \in Inst :
       /\ InViewPage(i) /\ pc[i] = "body" => page[i] \in openPages
       /\ InViewPage(i) /\ InViewPage(i)' /\ op'[i].stage # op[i].stage =>
            /\ <<op[i].stage, op'[i].stage>> \in
                 {<<"wait", "index">>, <<"index", "content">>, <<"content", "ask">>}
            /\ op[i].stage = "index" =>
                 /\ cache'[i] = [set |-> TRUE, els |-> Scan(dom[i], 1, 0, <<>>).els]
                 /\ op'[i].listing = FormatElements(cache'[i].els)
       /\ InViewPage(i) /\ pc'[i] = "idle" /\ ret'[i].kind = "result" =>
            /\ op[i].stage = "ask"
            /\ ret'[i].success
            /\ DOMAIN ret'[i].data = {"interactive_elements", "content"}
            /\ ret'[i].data.interactive_elements = FormatElements(Snapshot(i)')
            /\ CallNames(ret'[i].calls) = ViewOrder(Len(op[i].polls))]_vars

\* After a navigate() whose indexing script raised (the snapshot was left
\* empty), a view_page() whose wait timed out returned the listing of the
\* elements of the loaded document.
C24_Witness ==
  /\ pc[1] = "idle"
  /\ ops = 2
  /\ faults = ViewFaults - 1
  /\ ret[1].op.name = "view_page"
  /\ ret[1].kind = "result" /\ ret[1].success
  /\ ~ret[1].op.loaded
  /\ Len(ret[1].op.polls) = 3
  /\ Len(ret[1].data.interactive_elements) = MaxNodes
  /\ Len(Snapshot(1)) = MaxNodes

\* view_page() of instance i is over, and it had asked the collaborator
ViewAsked(i) ==
  /\ pc[i] = "idle"
  /\ ret[i].op.name = "view_page"
  /\ CallsOf(ret[i].calls, "llm.ask") # {}

\* C25: a view_page() asks the collaborator at most once, as its last call;
\* when that call raises, view_page() ends with the exception, not with a
\* result, and when it returns, with a successful result.
C25_CollaboratorFailurePropagates ==
  \A i \in Inst :
    /\ pc[i] = "idle" /\ ret[i].op.name = "view_page" =>
          Cardinality(CallsOf(ret[i].calls, "llm.ask")) <= 1
    /\ ViewAsked(i) =>
          LET c == ret[i].calls
          IN /\ CallsOf(c, "llm.ask") = {Len(c)}
             /\ ~c[Len(c)][3] =>
                   /\ ret[i].kind = "raised"
                   /\ ret[i].message.text = ErrorText
             /\ c[Len(c)][3] => ret[i].kind = "result" /\ ret[i].success

\* The collaborator raised and view_page() ended with its exception.
C25_Witness ==
  /\ ViewAsked(1)
  /\ ~ret[1].calls[Len(ret[1].calls)][3]
  /\ ret[1].kind = "raised"
  /\ faults = ViewFaults - 1

\* t is the text u or a piece that starts where u starts
IsPrefix(t, u) == t.src = u.src /\ t.lo = u.lo /\ t.hi <= u.hi

\* C29: the text the collaborator is asked with is the converted markup when
\* that has at most 50,000 characters, and its first 50,000 characters
\* otherwise; it is never longer than 50,000 characters and always a prefix of
\* the converted markup.
C29_HandedTextCapped ==
  \A i \in Inst :
    ViewAsked(i) =>
      LET m == ret[i].op.markup
          h == ret[i].handed
      IN /\ TextLen(m) <= max_content_length => h = m
         /\ TextLen(m) > max_content_length =>
               h = [src |-> m.src, lo |-> m.lo, hi |-> m.lo + max_content_length]
         /\ TextLen(h) <= max_content_length
         /\ IsPrefix(h, m)

\* The markup had one character more than the cap and lost it.
C29_Witness ==
  /\ ViewAsked(1)
  /\ TextLen(ret[1].op.markup) = max_content_length + 1
  /\ TextLen(ret[1].handed) = max_content_length
  /\ ret[1].kind = "result"

\* A markup of exactly the cap was handed over whole.
C29_WitnessAtCap ==
  /\ ViewAsked(1)
  /\ TextLen(ret[1].op.markup) = max_content_length
  /\ ret[1].handed = ret[1].op.markup

\* The body of a click() or input() of instance i that was given both
\* coordinates runs and returns.
CoordinateActionReturns(i) ==
  /\ pc[i] = "body"
  /\ op[i].name \in {"click", "input"}
  /\ op[i].coords = "both"
  /\ pc'[i] = "idle"
\* the calls of the coordinate form: the click, and what input() types
CoordinateCalls(o) ==
  << <<"mouse.click", "xy">> >>
  \o (IF o.name = "input" THEN << <<"keyboard.type", "text">> >> ELSE <<>>)
  \o (IF o.name = "input" /\ o.enter THEN << <<"keyboard.press", "Enter">> >> ELSE <<>>)

\* C26: a click() or input() given both coordinates clicks the viewport
\* point first, whatever index it was given and whatever the snapshot holds:
\* it makes the calls of the coordinate form up to the first that raises and
\* no other call (no locator query), leaves snapshot and document as they
\* are, and succeeds exactly when none of these calls raised.
C26_CoordinateFormBypassesIndex ==
  [][\A i \in Inst :
       CoordinateActionReturns(i) =>
         LET c == ret'[i].calls
             all == CoordinateCalls(op[i])
         IN /\ cache'[i] = cache[i]
            /\ dom'[i] = dom[i]
            /\ Len(c) \in 1..Len(all)
            /\ \A k \in 1..Len(c) :
                  /\ <<c[k][1], c[k][2]>> = all[k]
                  /\ k < Len(c) => c[k][3]
            /\ c[Len(c)][3] => Len(c) = Len(all)
            /\ c[Len(c)][3] <=> (ret'[i].kind = "result" /\ ret'[i].success)]_vars

\* A click() given both coordinates and index 0 succeeded on a page whose
\* snapshot is empty.
C26_Witness ==
  /\ pc[1] = "idle"
  /\ ret[1].op.name = "click"
  /\ ret[1].op.coords = "both"
  /\ ret[1].op.index = 0
  /\ Snapshot(1) = <<>>
  /\ ret[1].kind = "result" /\ ret[1].success
  /\ ret[1].calls = << <<"mouse.click", "xy", TRUE>> >>

\* An input() given both coordinates and an index of the snapshot typed at the
\* point and left the snapshot as it was.
C26_WitnessInput ==
  /\ pc[1] = "idle"
  /\ ret[1].op.name = "input"
  /\ ret[1].op.coords = "both"
  /\ ret[1].op.index = 0
  /\ Len(Snapshot(1)) > 0
  /\ ret[1].kind = "result" /\ ret[1].success
  /\ CallsOf(ret[1].calls, "page.query_selector") = {}

\* line 492: the settle delay, in seconds
settle_delay == 1
\* The body of a click() of instance i in index form returns, having found
\* its element on the page.
ClickOnElementReturns(i) ==
  /\ pc[i] = "body"
  /\ op[i].name = "click"
  /\ op[i].coords # "both" /\ op[i].index # NoIndex
  /\ pc'[i] = "idle"
  /\ Len(ret'[i].calls) >= 2
  /\ ret'[i].calls[1][3]
\* The looks under which a node has no box or is hidden by its style
LooksHidden == {"zero_width", "zero_height", "display_none", "hidden", "transparent"}
\* The calls click() is to make on element el: with a scroll and the settle
\* delay when the element is hidden, and one click in either case
ExpectedClickCalls(i, el) ==
  << <<"page.query_selector", op[i].index>>, <<"page.evaluate", "is_visible">> >>
  \o (IF dom[i][el].look \notin LooksHidden THEN <<>>
      ELSE << <<"page.evaluate", "scrollIntoView">>, <<"asyncio.sleep", settle_delay>> >>)
  \o << <<"element.click", el>> >>

\* C27: click(index) on an element found on the page tests its visibility;
\* when the element is hidden it scrolls it into view and sleeps 1 second
\* before it clicks, when the element is visible it clicks at once; it clicks
\* at most once, as its last call, and makes these calls in this order up to
\* the first that raises.
C27_ScrollThenSettleThenClick ==
  [][\A i \in Inst :
       ClickOnElementReturns(i) =>
         LET c == ret'[i].calls
             el == GetElementByIndex(i, op[i].index)
             all == ExpectedClickCalls(i, el)
         IN /\ Len(c) <= Len(all)
            /\ \A k \in 1..Len(c) :
                  /\ <<c[k][1], c[k][2]>> = all[k]
                  /\ k < Len(c) => c[k][3]
            /\ c[Len(c)][3] => Len(c) = Len(all)
            /\ Cardinality(CallsOf(c, "element.click")) <= 1
            /\ CallsOf(c, "element.click") \subseteq {Len(c)}
            /\ ret'[i].kind = "result"
            /\ ret'[i].success <=> c[Len(c)][3]]_vars

\* A click on an element that was hidden after it was indexed went through,
\* after the scroll and the settle delay.
C27_Witness ==
  /\ pc[1] = "idle"
  /\ ret[1].op.name = "click"
  /\ ret[1].kind = "result" /\ ret[1].success
  /\ Len(ret[1].calls) = 5
  /\ ret[1].calls[3] = <<"page.evaluate", "scrollIntoView", TRUE>>
  /\ ret[1].calls[4] = <<"asyncio.sleep", settle_delay, TRUE>>
  /\ ret[1].calls[5][1] = "element.click"

\* A click on a visible element went through with no scroll and no delay.
C27_WitnessVisible ==
  /\ pc[1] = "idle"
  /\ ret[1].op.name = "click"
  /\ ret[1].kind = "result" /\ ret[1].success
  /\ Len(ret[1].calls) = 3
  /\ ret[1].calls[3][1] = "element.click"

\* ---- C28
\* An indexing of the document returns its snapshot.
IndexReturns(i) ==
  /\ pc[i] = "body"
  /\ op[i].name = "index"
  /\ pc'[i] = "idle"
  /\ ret'[i].kind = "value"
\* The nodes of the snapshot the indexing made
InSnapshot(i) == {cache'[i].els[k].node : k \in 1..Len(cache'[i].els)}
\* The roles that make a node interactive, among those of the documents
InteractiveRoles == {"button", "link"}
\* A candidate as stated: an interactive tag, an explicit interactive role or a
\* non-negative tab index
StatedCandidate(e) ==
  \/ e.tag \in {"button", "a", "input", "textarea", "select"}
  \/ e.role \in InteractiveRoles
  \/ e.tabindex # NoTabindex /\ e.tabindex[1] >= 0
\* The box has a non-zero width and height, it meets the viewport rectangle,
\* and the style is none of display:none, visibility:hidden, opacity 0.
StatedVisible(e) ==
  LET r == Rect(e.look)
      st == Style(e.look)
  IN /\ r.width # 0 /\ r.height # 0
     /\ r.left <= viewportWidth /\ r.right >= 0
     /\ r.top <= viewportHeight /\ r.bottom >= 0
     /\ st.display # "none" /\ st.visibility # "hidden" /\ st.opacity # "0"
\* C28: when an indexing returns the snapshot of a document, every node of the
\* document that is a candidate (interactive tag, explicit interactive role or
\* non-negative tab index) is in the snapshot if and only if its box is not
\* empty, meets the viewport and is not hidden by its style, and a node that is
\* no candidate is not in the snapshot and has no marker attribute afterwards.
C28_CandidatesFiltered ==
  [][\A i \in Inst :
       IndexReturns(i) =>
         \A n \in Nodes :
           dom[i][n].present =>
             IF StatedCandidate(dom[i][n])
               THEN (n \in InSnapshot(i)) <=> StatedVisible(dom[i][n])
               ELSE n \notin InSnapshot(i) /\ dom'[i][n].mark = NoMark]_vars

\* ---- C30
\* The driver runtimes and the connections instance i opened that are live
LiveRuntimesOf(i) == {id \in liveRt : MadeFor(id) = i}
LiveConnectionsOf(i) == {id \in liveConn : MadeFor(id) = i}
\* C30: at any time, of the driver runtimes an instance started at most one is
\* live, and of the connections it dialed at most one is live (so that a new one
\* is opened only when the earlier ones have been stopped or released).
C30_OneLiveRuntimeAndConnection ==
  \A i \in Inst :
    /\ Cardinality(LiveRuntimesOf(i)) <= 1
    /\ Cardinality(LiveConnectionsOf(i)) <= 1

\* ---- C31
\* The calls that dispatch the action of an operation to the page: a click for
\* click(), typing for input().
DispatchCalls(name) ==
  IF name = "click" THEN {"mouse.click", "element.click"}
  ELSE {"keyboard.type", "element.type"}
\* One of these calls was made and returned.
Dispatched(r) ==
  \E k \in 1..Len(r.calls) : r.calls[k][1] \in DispatchCalls(r.op.name) /\ r.calls[k][3]
\* C31: a click() or input() that has ended with success=true has made a call
\* that clicks (click) or types the text (input), and that call returned.
C31_SuccessOnlyIfDispatched ==
  \A i \in Inst :
    (/\ pc[i] = "idle"
     /\ ret[i].op.name \in {"click", "input"}
     /\ ret[i].kind = "result"
     /\ ret[i].success) => Dispatched(ret[i])

\* ---- C32
\* C32: whenever an instance is between operations, a page reference implies a
\* context reference, a context reference implies a browser reference, and the
\* shared-link flag is true exactly when there is a browser reference.
C32_ReferencesConsistent ==
  \A i \in Inst :
    pc[i] = "idle" =>
      /\ (page[i] # None => context[i] # None)
      /\ (context[i] # None => browser[i] # None)
      /\ (connected_over_cdp[i] <=> browser[i] # None)
\* Instance 1 is between operations with a page of its own, after a call of
\* the set-up of a session had failed and its page had been closed from outside
\* and made anew.
C32_Witness ==
  /\ pc[1] = "idle"
  /\ ret[1].op.name = "click"
  /\ page[1] \in openPages
  /\ context[1] \in openCtx
  /\ connected_over_cdp[1]
  /\ nextId[1].page > 1
  /\ connFaults = 0
  /\ faults = 0
\* Instance 1 is between operations after a cleanup(): it holds its browser and
\* neither context nor page.
C32_WitnessCleaned ==
  /\ pc[1] = "idle"
  /\ ret[1].op.name = "cleanup"
  /\ browser[1] # None
  /\ connected_over_cdp[1]
  /\ context[1] = None
  /\ page[1] = None

\* ---- C33
\* The index-based actions
IndexActions == {"click", "input", "select_option"}
\* A step in which an index-based action of instance i, past _ensure_page, ends.
IndexActionEnds(i) ==
  /\ pc[i] = "body"
  /\ op[i].name \in IndexActions
  /\ op[i].name = "select_option" \/ IndexForm(op[i])
  /\ pc'[i] = "idle"
\* The result of an action that found no element with the index.
NotFoundResult(r) ==
  /\ r.kind = "result"
  /\ ~r.success
  /\ r.message.text \in {"Cannot find interactive element with index ",
                          "Cannot find selector element with index "}
\* C33: a step that replaces the page of an instance leaves it without a
\* snapshot; a snapshot with elements comes only from a step of an indexing
\* operation of that instance (navigate, index, view_page) on the page it
\* holds; and an index-based click, input or select_option that runs on a page
\* that has no snapshot with its index ends with the not-found result without
\* having looked for any element on the page.
C33_SnapshotBelongsToPage ==
  [][\A i \in Inst :
       /\ page'[i] # page[i] => cache'[i].els = <<>>
       /\ (cache'[i] # cache[i] /\ cache'[i].els # <<>>) =>
            /\ pc[i] = "body"
            /\ op[i].name \in {"navigate", "index", "view_page"}
            /\ page'[i] = page[i]
       /\ (IndexActionEnds(i) /\ (~cache[i].set \/ op[i].index >= Len(cache[i].els))) =>
            /\ NotFoundResult(ret'[i])
            /\ ret'[i].message.arg = ToString(op[i].index)
            /\ ret'[i].calls = <<>>]_vars
\* An index-based action has ended with the not-found result for an index the
\* snapshot of the earlier page held, on the page that replaced that one.
C33_Witness ==
  /\ pc[1] = "idle"
  /\ ret[1].op.name \in IndexActions
  /\ ret[1].op.index = 0
  /\ NotFoundResult(ret[1])
  /\ nextId[1].page > 2
  /\ page[1] \in openPages
  /\ ~cache[1].set
\* The case before the action acts: click(0) is at its _ensure_page, the page
\* has been closed from outside and its snapshot holds index 0.
C33_WitnessClosedPage ==
  /\ pc[1] = "ensure"
  /\ op[1].name = "click"
  /\ IndexForm(op[1])
  /\ op[1].index = 0
  /\ page[1] # None
  /\ page[1] \notin openPages
  /\ Len(cache[1].els) > 0

\* ---- C34
\* The last k elements of a sequence, in their order
Last(s, k) == [j \in 1..k |-> s[Len(s) - k + j]]
\* C34: a console_view() that has returned a result on a page that had L lines
\* buffered returns, for max_lines = n >= 0, the last min(n, L) of them in their
\* order (so never more than n), and all L of them when max_lines is absent.
C34_LastLinesReturned ==
  \A i \in Inst :
    (/\ pc[i] = "idle"
     /\ ret[i].op.name = "console_view"
     /\ ret[i].kind = "result") =>
      LET n == ret[i].op.max_lines
          L == Len(ret[i].logs)
      IN /\ ret[i].success
         /\ IF n = NoMaxLines
              THEN ret[i].data = ret[i].logs
              ELSE /\ ret[i].data = Last(ret[i].logs, Min(n, L))
                   /\ Len(ret[i].data) <= n

\* ---- C35
\* Stale as stated: the latest message of the session, or its last update when
\* it has no message yet, is older than session_stale_seconds at time t.
StaleAt(d, t) ==
  (IF d.latest_message_at # NoTime THEN d.latest_message_at ELSE d.updated_at)
    < t - session_stale_seconds
\* A step in which the sweep marks the stored session id COMPLETED
SweepMarks(id) ==
  /\ sweep.pc = "save"
  /\ sessions[id].status # "completed"
  /\ sessions'[id].status = "completed"
\* C35: the sweep marks a session COMPLETED only if the session is RUNNING and
\* stale (its latest message, or without one its last update, is older than
\* session_stale_seconds); and a save() that raises stops neither the round,
\* which goes on to the other documents it found, nor the task, which sleeps
\* and sweeps again.
C35_OnlyStaleRunningMarked ==
  [][/\ \A id \in SessionIds :
          SweepMarks(id) =>
            /\ sessions[id].status = "running"
            /\ StaleAt(sessions[id], now)
     /\ (sweep.pc = "save" /\ sweep' # sweep) =>
          /\ sweep'.pc \in {"save", "sleep"}
          /\ sweep'.docs = Tail(sweep.docs)
          /\ sweep'.pc = "sleep" => sweep'.tried = sweep.found
     /\ (sweep.pc = "sleep" /\ sweep' # sweep) => sweep'.pc = "find"]_vars

\* ---- C36
\* The call of ask() has ended.
AskEnded == llm.pc \in {"returned", "raised"}
\* The delays before the 2nd to 5th request
StatedDelays == <<1, 2, 4, 8>>
\* C36: ask() sends at most 5 requests, sleeps 1, 2, 4, 8 seconds before the
\* 2nd to 5th of them, returns the message of the first response that has
\* choices, raises the error of the 5th request when that one fails too, never
\* returns None, and every call ends by returning or raising.
C36_AskTerminates ==
  /\ [](/\ Len(llm.sent) <= 5
        /\ Len(llm.slept) <= Len(StatedDelays)
        /\ llm.slept = SubSeq(StatedDelays, 1, Len(llm.slept))
        /\ llm.pc \in {"sleep", "returned", "raised"} =>
             Len(llm.slept) = Len(llm.sent) - 1
        /\ llm.pc = "returned" =>
             /\ llm.result = "message"
             /\ llm.replies[Len(llm.replies)] = "choices"
             /\ \A k \in 1..(Len(llm.replies) - 1) : llm.replies[k] # "choices"
        /\ llm.pc = "raised" =>
             /\ Len(llm.sent) = 5
             /\ \A k \in 1..5 : llm.replies[k] # "choices"
             /\ llm.error = llm.replies[5])
  /\ ((llm.pc # "idle") ~> AskEnded)
\* A call has raised after five requests of which none had choices, with the
\* four delays between them.
C36_Witness ==
  /\ llm.pc = "raised"
  /\ Len(llm.sent) = 5
  /\ llm.slept = StatedDelays
  /\ llm.replies = <<"no_choices", "bad_request", "too_large", "error", "no_choices">>
\* A call has returned the message of its third request.
C36_WitnessReturned ==
  /\ llm.pc = "returned"
  /\ llm.result = "message"
  /\ llm.replies = <<"error", "no_choices", "choices">>

\* ---- C37
\* C37: within one call of ask(), the max_tokens sent with a request is at most
\* the one sent with the request before; after a max_tokens-too-large error the
\* next request is sent with half of it, but not less than 512, and after any
\* other failure with the same value.
C37_MaxTokensNeverGrows ==
  \A k \in 2..Len(llm.sent) :
    /\ llm.sent[k] <= llm.sent[k - 1]
    /\ IF llm.replies[k - 1] = "too_large"
         THEN llm.sent[k] = (IF llm.sent[k - 1] \div 2 < 512 THEN 512
                             ELSE llm.sent[k - 1] \div 2)
         ELSE llm.sent[k] = llm.sent[k - 1]
====
